---- MODULE Spec2Model ----
(***************************************************************************)
(* State-machine model of the llama-swap SwiftBar plugin:                  *)
(*   - the bounded, timestamped metric series of models.rs (push_value,    *)
(*     trim_deque, MetricsHistory::push / trim_old_data / clear) and their *)
(*     persistence (persistence.rs save_metrics / load_metrics);           *)
(*   - the agent-state derivation of state_model.rs and the per-iteration  *)
(*     update of types.rs (PluginState::update_state).                     *)
(*                                                                         *)
(* Time.  `now` is the wall clock (SystemTime, whole seconds since the     *)
(* epoch) that stamps samples; `mono` is the monotonic clock (Instant, in  *)
(* milliseconds) behind last_state_change.  Both only move forward, and    *)
(* the clock reads of one operation fall in the same tick.                 *)
(*                                                                         *)
(* Numbers.  f64 metric values are drawn from small naturals; the          *)
(* kv_cache_usage_ratio (0.0 .. 1.0) is kept in tenths.                    *)
(***************************************************************************)
EXTENDS Integers, Sequences, FiniteSets, TLC

VARIABLES
    \* ---- models.rs / persistence.rs ----
    now,                \* SystemTime::now() in seconds
    HISTORY_SIZE,       \* constants::HISTORY_SIZE of the running process
    history,            \* a MetricsHistory
    disk,               \* llama-swap-metrics.json: <<>> when there is no file,
                        \* <<json>> when there is one
    op,                 \* the last operation: its name, how many samples it
                        \* removed from history.tps, and whether it repeats a
                        \* trim that removed samples
    pushed,             \* Metrics pushed since the series last lost samples
                        \* to anything but capacity eviction
    \* ---- types.rs PluginState ----
    mono,               \* Instant::now() in milliseconds
    service_status,
    agent_state,
    polling_mode,
    model_states,
    current_all_metrics,
    error_count,
    last_state_change,
    metrics_history,    \* PluginState::metrics_history: the global series and
                        \* one MetricsHistory per model
    last_update,        \* what the last update_state iteration started from and saw
    display,            \* the DisplayState last computed for the menu, if any
    insights,           \* what was last computed from the series history.tps, if
                        \* anything: its trend, or whether a value is an anomaly
    control,            \* main.rs: where the control loop and its sleep are, the
                        \* shutdown flag, the shutdown channel of the tests
    \* ---- state_machines ----
    agent_machine,          \* the Agent state machine, its AgentContext, and
                            \* the service it is told about
    polling_mode_machine,   \* the PollingMode state machine and its context
    program_machine         \* the Program state machine

histVars == <<now, HISTORY_SIZE, history, disk, op, pushed>>
machineVars == <<agent_machine, polling_mode_machine, program_machine>>
pluginVars == <<mono, service_status, agent_state, polling_mode, model_states,
                current_all_metrics, error_count, last_state_change,
                metrics_history, last_update, display, insights, control, machineVars>>
vars == <<histVars, pluginVars>>

----------------------------------------------------------------------------
\* Bounds of the model

MaxCapacity == 2
MaxValue == 2
MaxTime == 500

\* Program constants

RetentionSecs == 300

\* Steps of the wall clock between operations, in seconds: pauses that carry
\* samples to the edge of the retention window and across it.
ClockSteps == {100, 300}

Capacities == 0..MaxCapacity
Values == 1..MaxValue

----------------------------------------------------------------------------
\* models.rs: Metrics, TimestampedValue, MetricsHistory

\* The Metrics a probe can report (the fields MetricsHistory::push reads).
MetricsInputs ==
    { [predicted_tokens_per_sec |-> v, prompt_tokens_per_sec |-> MaxValue + 1 - v,
       memory_mb |-> 100 * v, kv_cache_usage_tenths |-> v] : v \in Values }

kv_cache_percent(m) == m.kv_cache_usage_tenths * 10

TimestampedValue(timestamp, value) == [timestamp |-> timestamp, value |-> value]

saturating_sub(a, b) == IF a > b THEN a - b ELSE 0

SeriesNames == {"tps", "prompt_tps", "memory_mb", "kv_cache_percent"}

with_capacity(capacity) ==
    [tps |-> <<>>, prompt_tps |-> <<>>, memory_mb |-> <<>>,
     kv_cache_percent |-> <<>>, max_size |-> capacity]

\* `while deque.len() > max_size { deque.pop_front(); }`
RECURSIVE pop_front_while_over(_, _)
pop_front_while_over(deque, max_size) ==
    IF Len(deque) > max_size
    THEN pop_front_while_over(Tail(deque), max_size)
    ELSE deque

\* A push that makes room by dropping the newest stored sample.
push_value_pop_back(deque, value, timestamp, max_size) ==
    IF max_size = 0 THEN <<>>
    ELSE IF Len(deque) >= max_size
         THEN Append(SubSeq(deque, 1, max_size - 1), TimestampedValue(timestamp, value))
         ELSE Append(deque, TimestampedValue(timestamp, value))

\* A push that puts the new sample before the stored ones.
push_value_push_front(deque, value, timestamp, max_size) ==
    LET d == <<TimestampedValue(timestamp, value)>> \o deque
    IN  IF Len(d) > max_size THEN SubSeq(d, 1, max_size) ELSE d

push_value(deque, value, timestamp, max_size) ==
    pop_front_while_over(Append(deque, TimestampedValue(timestamp, value)), max_size)

\* A trim that pops at most one sample per call.
trim_deque_once(deque, cutoff) ==
    IF deque # <<>> /\ Head(deque).timestamp < cutoff THEN Tail(deque) ELSE deque

\* A trim that also drops the sample stamped exactly at the cutoff.
RECURSIVE trim_deque_inclusive(_, _)
trim_deque_inclusive(deque, cutoff) ==
    IF deque # <<>> /\ Head(deque).timestamp <= cutoff
    THEN trim_deque_inclusive(Tail(deque), cutoff)
    ELSE deque

\* A trim that never removes anything.
trim_deque_noop(deque, cutoff) == deque

\* `while deque.front().map_or(false, |v| v.timestamp < cutoff) { pop_front }`
RECURSIVE trim_deque(_, _)
trim_deque(deque, cutoff) ==
    IF deque # <<>> /\ Head(deque).timestamp < cutoff
    THEN trim_deque(Tail(deque), cutoff)
    ELSE deque

\* MetricsHistory::trim_old_data, at wall-clock time t
trim_old_data(h, t) ==
    LET cutoff == saturating_sub(t, RetentionSecs)
    IN  [h EXCEPT !.tps = trim_deque(@, cutoff),
                  !.prompt_tps = trim_deque(@, cutoff),
                  !.memory_mb = trim_deque(@, cutoff),
                  !.kv_cache_percent = trim_deque(@, cutoff)]

\* MetricsHistory::push, at wall-clock time t
push(h, metrics, t) ==
    trim_old_data(
        [h EXCEPT
            !.tps = push_value(@, metrics.predicted_tokens_per_sec, t, h.max_size),
            !.prompt_tps = push_value(@, metrics.prompt_tokens_per_sec, t, h.max_size),
            !.memory_mb = push_value(@, metrics.memory_mb, t, h.max_size),
            !.kv_cache_percent = push_value(@, kv_cache_percent(metrics), t, h.max_size)],
        t)

\* MetricsHistory::clear
clear(h) ==
    [h EXCEPT !.tps = <<>>, !.prompt_tps = <<>>, !.memory_mb = <<>>,
              !.kv_cache_percent = <<>>]

----------------------------------------------------------------------------
\* models.rs: statistics of a series

\* f64 results are kept exact, as fractions num/den in lowest terms with
\* den > 0; 1/0 is INFINITY, -1/0 is NEG_INFINITY and 0/0 is NaN.
RECURSIVE GCD(_, _)
GCD(a, b) == IF b = 0 THEN a ELSE GCD(b, a % b)

Abs(x) == IF x < 0 THEN 0 - x ELSE x

Sign(x) == IF x < 0 THEN 0 - 1 ELSE IF x > 0 THEN 1 ELSE 0

\* the f64 quotient num / den, for den >= 0
f64_div(num, den) ==
    IF den = 0 THEN [num |-> Sign(num), den |-> 0]
    ELSE IF num = 0 THEN [num |-> 0, den |-> 1]
    ELSE [num |-> num \div GCD(Abs(num), den), den |-> den \div GCD(Abs(num), den)]

f64(v) == f64_div(v, 1)

INFINITY == [num |-> 1, den |-> 0]

NEG_INFINITY == [num |-> 0 - 1, den |-> 0]

\* f64::min and f64::max
f64_min(a, b) == IF a.num * b.den < b.num * a.den THEN a ELSE b

f64_max(a, b) == IF a.num * b.den > b.num * a.den THEN a ELSE b

\* `deque.iter().map(|tv| tv.value).collect()`
map_value(deque) == [i \in 1..Len(deque) |-> deque[i].value]

\* `values.iter().sum()`
RECURSIVE sum(_)
sum(values) == IF values = <<>> THEN 0 ELSE Head(values) + sum(Tail(values))

\* `values.iter().fold(init, |a, &b| f(a, b))` for f64::min and f64::max
RECURSIVE fold_min(_, _)
fold_min(init, values) ==
    IF values = <<>> THEN init ELSE fold_min(f64_min(init, f64(Head(values))), Tail(values))

RECURSIVE fold_max(_, _)
fold_max(init, values) ==
    IF values = <<>> THEN init ELSE fold_max(f64_max(init, f64(Head(values))), Tail(values))

\* MetricStats::default()
MetricStats_default ==
    [mean |-> f64(0), min |-> f64(0), max |-> f64(0), variance |-> f64(0), count |-> 0]

\* The statistics computed without the guard for the empty series.
calculate_stats_unguarded(deque) ==
    LET values == map_value(deque)
        count == Len(values)
    IN  [mean |-> f64_div(sum(values), count),
         min |-> fold_min(INFINITY, values),
         max |-> fold_max(NEG_INFINITY, values),
         variance |-> f64_div(count * sum([i \in 1..count |-> values[i] * values[i]])
                                - sum(values) * sum(values), count * count),
         count |-> count]

\* Statistics that take the oldest stored sample for the smallest.
calculate_stats_min_front(deque) ==
    IF deque = <<>> THEN MetricStats_default
    ELSE [calculate_stats_unguarded(deque) EXCEPT !.min = f64(deque[1].value)]

\* MetricsHistory::calculate_stats.  `variance` is the value whose square root
\* the code returns as std_dev: the mean of (v - mean)^2, which is
\* (count * sum(v^2) - sum(v)^2) / count^2.
calculate_stats(deque) ==
    IF deque = <<>>
    THEN MetricStats_default
    ELSE LET values == map_value(deque)
             count == Len(values)
         IN  [mean |-> f64_div(sum(values), count),
              min |-> fold_min(INFINITY, values),
              max |-> fold_max(NEG_INFINITY, values),
              variance |-> f64_div(count * sum([i \in 1..count |-> values[i] * values[i]])
                                     - sum(values) * sum(values), count * count),
              count |-> count]

\* MetricsHistory::get_insights: current, min, max and data_points
get_insights(deque) ==
    LET data_points == Len(deque)
    IN  IF data_points = 0
        THEN [current |-> f64(0), min |-> f64(0), max |-> f64(0), data_points |-> 0]
        ELSE LET current == f64(deque[Len(deque)].value)
             IN  [current |-> current,
                  min |-> IF data_points = 1 THEN current
                          ELSE fold_min(INFINITY, map_value(deque)),
                  max |-> IF data_points = 1 THEN current
                          ELSE fold_max(NEG_INFINITY, map_value(deque)),
                  data_points |-> data_points]

----------------------------------------------------------------------------
\* models.rs: trend of a series, anomaly of a value.  The values of the series
\* are integers here; quotients are compared by cross-multiplication.

Increasing == "Increasing"
Decreasing == "Decreasing"
Stable == "Stable"
Insufficient == "Insufficient"

\* one sample fewer than the code asks for
MinTrendPoints_two == 3 - 1

\* `len < 3`, `window_points.len() >= 3`, `all_points.len() >= 3`
MinTrendPoints == 3

\* the preferred windows, the narrow one first
preferred_windows_narrow_first == <<15, 30>>

\* `let preferred_windows = [30u64, 15u64]`
preferred_windows == <<30, 15>>

\* `deque.iter().filter(|tv| tv.timestamp >= cutoff_time).collect()`
window_points(deque, t, window_secs) ==
    SelectSeq(deque, LAMBDA tv : tv.timestamp >= saturating_sub(t, window_secs))

Max(a, b) == IF a > b THEN a ELSE b

Min(a, b) == IF a < b THEN a ELSE b

\* The points MetricsHistory::calculate_trend hands to
\* calculate_trend_from_points at time t, with the time span and the branch
\* that chose them: the first preferred window with enough points ("window",
\* with its seconds), or all the points over their own span ("all"); "none" is
\* the early return.
trend_window(deque, t) ==
    LET enough == { i \in 1..Len(preferred_windows) :
                        Len(window_points(deque, t, preferred_windows[i])) >= MinTrendPoints }
    IN  IF Len(deque) < MinTrendPoints
        THEN [choice |-> "none", window_secs |-> 0, points |-> <<>>, time_span_secs |-> 0]
        ELSE IF enough # {}
        THEN LET first == CHOOSE i \in enough : \A j \in enough : i <= j
             IN  [choice |-> "window", window_secs |-> preferred_windows[first],
                  points |-> window_points(deque, t, preferred_windows[first]),
                  time_span_secs |-> preferred_windows[first]]
        ELSE [choice |-> "all", window_secs |-> 0, points |-> deque,
              time_span_secs |->
                  Max(saturating_sub(deque[Len(deque)].timestamp, deque[1].timestamp), 1)]

\* the comparison of the slope with the adjusted threshold, both multiplied by
\* 800 * time_span: |last - first| / time_span against
\* max(magnitude * 0.05, 0.01) / time_span * time_factor, where magnitude is
\* (|first| + |last|) / 2 and time_factor is 1 from 30 s on and 1.5 below
slope_below_threshold(first, last, time_span_secs, floor) ==
    LET time_span == Max(time_span_secs, 1)
        threshold_x400 == Max((Abs(first) + Abs(last)) * 10, floor)
        time_factor_x2 == IF time_span >= 30 THEN 2 ELSE 3
    IN  Abs(last - first) * 800 < threshold_x400 * time_factor_x2

\* calculate_trend_from_points without the flat-line test and without the
\* absolute floor of the threshold
calculate_trend_from_points_relative_only(points, time_span_secs) ==
    IF Len(points) < MinTrendPoints THEN Insufficient
    ELSE LET values == map_value(points)
             first == values[1]
             last == values[Len(values)]
         IN  IF slope_below_threshold(first, last, time_span_secs, 0) THEN Stable
             ELSE IF last - first > 0 THEN Increasing
             ELSE Decreasing

\* calculate_trend_from_points without the comparison of the slope with the
\* threshold
calculate_trend_from_points_no_threshold(points, time_span_secs) ==
    IF Len(points) < MinTrendPoints THEN Insufficient
    ELSE LET values == map_value(points)
             first == values[1]
             last == values[Len(values)]
             max_val == fold_max(NEG_INFINITY, values)
             min_val == fold_min(INFINITY, values)
             value_range == max_val.num - min_val.num
         IN  IF value_range <= 0 THEN Stable
             ELSE IF last - first > 0 THEN Increasing
             ELSE Decreasing

\* MetricsHistory::calculate_trend_from_points.  A range of integer values is
\* below f64::EPSILON * 10.0 exactly when it is 0.
calculate_trend_from_points(points, time_span_secs) ==
    IF Len(points) < MinTrendPoints THEN Insufficient
    ELSE LET values == map_value(points)
             first == values[1]
             last == values[Len(values)]
             max_val == fold_max(NEG_INFINITY, values)
             min_val == fold_min(INFINITY, values)
             value_range == max_val.num - min_val.num
         IN  IF value_range <= 0 THEN Stable
             ELSE IF slope_below_threshold(first, last, time_span_secs, 4) THEN Stable
             ELSE IF last - first > 0 THEN Increasing
             ELSE Decreasing

\* MetricsHistory::calculate_trend, at wall-clock time t
calculate_trend(deque, t) ==
    LET w == trend_window(deque, t)
    IN  IF w.choice = "none" THEN Insufficient
        ELSE calculate_trend_from_points(w.points, w.time_span_secs)

\* MetricsHistory::detect_anomaly: current > recent_avg * 1.5 or
\* current < recent_avg * 0.5, with recent_avg = recent_sum / recent_count
detect_anomaly(deque, current) ==
    LET len == Len(deque)
        recent_count == Min(len - 1, 10)
        start_idx == len - 1 - recent_count
        recent_sum == sum(map_value(SubSeq(deque, start_idx + 1, start_idx + recent_count)))
    IN  IF len < 5 THEN FALSE
        ELSE 2 * current * recent_count > 3 * recent_sum
                \/ 2 * current * recent_count < recent_sum

----------------------------------------------------------------------------

\* models.rs: the history of all metrics (global series and per-model histories)

\* The global series PluginState::update_state pushes to.
GlobalSeriesNames ==
    {"cpu_usage_percent", "memory_usage_percent", "used_memory_gb",
     "total_llama_memory_mb"}

NoHistories == [n \in {} |-> with_capacity(0)]

AllMetricsHistory_with_capacity(capacity) ==
    [cpu_usage_percent |-> <<>>, memory_usage_percent |-> <<>>,
     used_memory_gb |-> <<>>, total_llama_memory_mb |-> <<>>,
     models |-> NoHistories, max_size |-> capacity]

\* The push of one sample onto a global series of capacity max_size: when the
\* series is full the oldest sample is evicted first.
CircularQueue_push(queue, sample, max_size) ==
    pop_front_while_over(Append(queue, sample), max_size)

AllMetricsHistory_trim_old_data_no_retain(h, t) ==
    LET cutoff == saturating_sub(t, RetentionSecs)
    IN  [h EXCEPT !.total_llama_memory_mb = trim_deque(@, cutoff),
                  !.cpu_usage_percent = trim_deque(@, cutoff),
                  !.memory_usage_percent = trim_deque(@, cutoff),
                  !.used_memory_gb = trim_deque(@, cutoff),
                  !.models = [n \in DOMAIN h.models |-> trim_old_data(h.models[n], t)]]

\* trim_old_data of the whole history, at wall-clock time t: the global series,
\* then every model's history, then `models.retain(|_, h| !h.tps.is_empty())`
AllMetricsHistory_trim_old_data(h, t) ==
    LET cutoff == saturating_sub(t, RetentionSecs)
        trimmed == [n \in DOMAIN h.models |-> trim_old_data(h.models[n], t)]
        kept == { n \in DOMAIN trimmed : trimmed[n].tps # <<>> }
    IN  [h EXCEPT !.total_llama_memory_mb = trim_deque(@, cutoff),
                  !.cpu_usage_percent = trim_deque(@, cutoff),
                  !.memory_usage_percent = trim_deque(@, cutoff),
                  !.used_memory_gb = trim_deque(@, cutoff),
                  !.models = [n \in kept |-> trimmed[n]]]

----------------------------------------------------------------------------
\* persistence.rs

\* serde_json::to_string_pretty(history): max_size is #[serde(skip)]
serialize(h) ==
    [tps |-> h.tps, prompt_tps |-> h.prompt_tps, memory_mb |-> h.memory_mb,
     kv_cache_percent |-> h.kv_cache_percent]

\* serde_json::from_str: the skipped max_size takes usize::default()
deserialize(json) ==
    [tps |-> json.tps, prompt_tps |-> json.prompt_tps, memory_mb |-> json.memory_mb,
     kv_cache_percent |-> json.kv_cache_percent, max_size |-> 0]

\* load_metrics, in a process whose HISTORY_SIZE is hs, at wall-clock time t
load_metrics(file, hs, t) ==
    IF file = <<>>
    THEN with_capacity(hs)
    ELSE trim_old_data([deserialize(file[1]) EXCEPT !.max_size = hs], t)

----------------------------------------------------------------------------
\* Bookkeeping of the last operation

Op(name, removed) ==
    [name |-> name, removed |-> removed,
     repeat |-> name = "trim_old_data" /\ op.name = "trim_old_data" /\ op.removed > 0]

FirstOp == [name |-> "new", removed |-> 0, repeat |-> FALSE]

RemovedByTrim(before, after) ==
    \E n \in SeriesNames : Len(after[n]) < Len(before[n])

----------------------------------------------------------------------------
\* Operations on the metrics history

\* process start: HISTORY_SIZE is read from the environment once (LazyLock)
\* and MetricsHistory::new() builds the empty history
Restart ==
    \E hs \in Capacities :
        /\ HISTORY_SIZE' = hs
        /\ history' = with_capacity(hs)
        /\ op' = Op("new", 0)
        /\ pushed' = <<>>
        /\ UNCHANGED <<now, disk>>

\* MetricsHistory::with_capacity(capacity)
WithCapacity ==
    \E c \in Capacities :
        /\ history' = with_capacity(c)
        /\ op' = Op("with_capacity", 0)
        /\ pushed' = <<>>
        /\ UNCHANGED <<now, HISTORY_SIZE, disk>>

\* MetricsHistory::push(&metrics)
Push ==
    \E m \in MetricsInputs :
        /\ history' = push(history, m, now)
        /\ op' = Op("push", Len(history.tps) + 1 - Len(history'.tps))
        /\ pushed' =
             LET trimmed == trim_old_data(history, now)
             IN  IF RemovedByTrim(history, trimmed)
                 THEN <<m>>
                 ELSE IF Len(pushed) > MaxCapacity
                      THEN Append(Tail(pushed), m)
                      ELSE Append(pushed, m)
        /\ UNCHANGED <<now, HISTORY_SIZE, disk>>

\* MetricsHistory::trim_old_data()
TrimOldData ==
    /\ history' = trim_old_data(history, now)
    /\ op' = Op("trim_old_data", Len(history.tps) - Len(history'.tps))
    /\ pushed' = IF RemovedByTrim(history, history') THEN <<>> ELSE pushed
    /\ UNCHANGED <<now, HISTORY_SIZE, disk>>

\* MetricsHistory::clear()
Clear ==
    /\ history' = clear(history)
    /\ op' = Op("clear", Len(history.tps))
    /\ pushed' = <<>>
    /\ UNCHANGED <<now, HISTORY_SIZE, disk>>

\* persistence::save_metrics(&history)
SaveMetrics ==
    /\ disk' = <<serialize(history)>>
    /\ op' = Op("save_metrics", 0)
    /\ UNCHANGED <<now, HISTORY_SIZE, history, pushed>>

\* persistence::load_metrics()
LoadMetrics ==
    /\ history' = load_metrics(disk, HISTORY_SIZE, now)
    /\ op' = Op("load_metrics", 0)
    /\ pushed' = <<>>
    /\ UNCHANGED <<now, HISTORY_SIZE, disk>>

\* persistence::clear_persistence()
ClearPersistence ==
    /\ disk # <<>>
    /\ disk' = <<>>
    /\ op' = Op("clear_persistence", 0)
    /\ UNCHANGED <<now, HISTORY_SIZE, history, pushed>>

\* the wall clock advances
Tick ==
    \E d \in ClockSteps :
        /\ now + d <= MaxTime
        /\ now' = now + d
        /\ op' = Op("tick", 0)
        /\ UNCHANGED <<HISTORY_SIZE, history, disk, pushed>>

----------------------------------------------------------------------------
\* types.rs: ServiceStatus

ServiceStatus(plist_installed, launchctl_loaded, process_running, api_responsive) ==
    [plist_installed |-> plist_installed, launchctl_loaded |-> launchctl_loaded,
     process_running |-> process_running, api_responsive |-> api_responsive]

is_fully_running_no_api(s) ==
    s.plist_installed /\ s.launchctl_loaded /\ s.process_running

is_fully_running(s) ==
    s.plist_installed /\ s.launchctl_loaded /\ s.process_running /\ s.api_responsive

----------------------------------------------------------------------------
\* state_model.rs: AgentState, PollingMode, ModelState

BinaryNotFound == "BinaryNotFound"
PlistMissing == "PlistMissing"
NotReady(reason) == [tag |-> "NotReady", reason |-> reason]
Stopped == [tag |-> "Stopped"]
Starting == [tag |-> "Starting"]
Running == [tag |-> "Running"]

\* A derivation without the `(true, false, _)` arm: a plist without a binary
\* counts as ready to start.
from_system_check_no_binary_arm(plist_installed, binary_available, service_running) ==
    IF service_running THEN Running
    ELSE IF plist_installed THEN Stopped
    ELSE IF binary_available THEN NotReady(PlistMissing)
    ELSE NotReady(BinaryNotFound)

\* A derivation with the two NotReady reasons exchanged.
from_system_check_swapped_reasons(plist_installed, binary_available, service_running) ==
    IF service_running THEN Running
    ELSE IF plist_installed /\ binary_available THEN Stopped
    ELSE IF ~plist_installed /\ ~binary_available THEN NotReady(PlistMissing)
    ELSE IF ~plist_installed /\ binary_available THEN NotReady(BinaryNotFound)
    ELSE NotReady(BinaryNotFound)

\* `match (plist_installed, binary_available, service_running)`, arm by arm
from_system_check(plist_installed, binary_available, service_running) ==
    IF service_running THEN Running
    ELSE IF plist_installed /\ binary_available THEN Stopped
    ELSE IF ~plist_installed /\ ~binary_available THEN NotReady(BinaryNotFound)
    ELSE IF ~plist_installed /\ binary_available THEN NotReady(PlistMissing)
    ELSE NotReady(BinaryNotFound)

Idle == "Idle"
Active == "Active"

\* PollingMode::interval, in milliseconds
interval(mode) ==
    IF mode = Idle THEN 3000 ELSE IF mode = Active THEN 1000 ELSE 2000

STATE_CHANGE_DURATION == 5000

\* state_machines/agent.rs: AgentContext::new, startup_timeout in milliseconds
startup_timeout == 5000

compute_activity_first(current, state_changed, has_activity, last_change_elapsed) ==
    IF state_changed THEN "Starting"
    ELSE IF has_activity THEN Active
    ELSE IF last_change_elapsed < STATE_CHANGE_DURATION THEN "Starting"
    ELSE Idle

\* A compute that leaves Starting only for Active.
compute_sticky_starting(current, state_changed, has_activity, last_change_elapsed) ==
    IF state_changed THEN "Starting"
    ELSE IF last_change_elapsed < STATE_CHANGE_DURATION THEN "Starting"
    ELSE IF has_activity THEN Active
    ELSE IF current = "Starting" THEN "Starting"
    ELSE Idle

\* PollingMode::compute
compute(current, state_changed, has_activity, last_change_elapsed) ==
    IF state_changed THEN "Starting"
    ELSE IF last_change_elapsed < STATE_CHANGE_DURATION THEN "Starting"
    ELSE IF has_activity THEN Active
    ELSE Idle

ModelStates == {"Unknown", "Loading", "Running"}

is_loading(state) == state = "Loading"

----------------------------------------------------------------------------
\* types.rs: PluginState

MaxErrors == 2

MaxMono == 7000

ModelNames == {"m1"}

PollingModes == {Idle, Active, "Starting"}

NoModels == [n \in {} |-> "Unknown"]

\* The Metrics of one model in a probe's answer: an idle model, or one that is
\* processing a request and generating tokens.
ProbeMetrics ==
    { [predicted_tokens_per_sec |-> q, prompt_tokens_per_sec |-> q,
       memory_mb |-> 100, kv_cache_usage_tenths |-> q,
       requests_processing |-> q, requests_deferred |-> 0] : q \in {0, 1} }

\* What one model of a probe's AllMetrics carries: its state and its metrics.
ModelEntries ==
    { [model_state |-> st, metrics |-> m] : st \in ModelStates, m \in ProbeMetrics }

\* What collect_system_metrics and get_llama_server_memory_mb report.
SystemMetricsInputs ==
    { [cpu_usage_percent |-> v, memory_usage_percent |-> v, used_memory_gb |-> v,
       llama_memory_mb |-> 100 * v] : v \in Values }

\* The report of a machine whose load does not move.
SteadySystemMetrics == { m \in SystemMetricsInputs : m.cpu_usage_percent = 1 }

\* The AllMetrics a successful probe can return: `models`, keyed by model_name.
AllMetricsInputs ==
    UNION { [D -> ModelEntries] : D \in SUBSET ModelNames }

\* Option<T>: <<>> is None, <<x>> is Some(x)
None == <<>>
Some(x) == <<x>>

Self ==
    [service_status |-> service_status, agent_state |-> agent_state,
     polling_mode |-> polling_mode, model_states |-> model_states,
     current_all_metrics |-> current_all_metrics, error_count |-> error_count,
     last_state_change |-> last_state_change, metrics_history |-> metrics_history]

\* ServiceStatus::update(api_success), given what the three system checks answer
ServiceStatus_update(plist_installed, launchctl_loaded, process_running, api_success) ==
    ServiceStatus(plist_installed, launchctl_loaded, process_running, api_success)

has_queue_activity(self) ==
    /\ self.current_all_metrics # None
    /\ \E n \in DOMAIN self.current_all_metrics[1] :
            \/ self.current_all_metrics[1][n].metrics.requests_processing > 0
            \/ self.current_all_metrics[1][n].metrics.requests_deferred > 0

has_loading_models(self) ==
    \E n \in DOMAIN self.model_states : is_loading(self.model_states[n])

\* state_model.rs: DisplayState
AgentNotLoaded == "AgentNotLoaded"
AgentStarting == "AgentStarting"
ServiceStopped == "ServiceStopped"
ServiceLoadedNoModel == "ServiceLoadedNoModel"
ModelLoading == "ModelLoading"
ModelProcessingQueue == "ModelProcessingQueue"
ModelReady == "ModelReady"

DisplayStates ==
    {AgentNotLoaded, AgentStarting, ServiceStopped, ServiceLoadedNoModel,
     ModelLoading, ModelProcessingQueue, ModelReady}

\* A display state that looks at the queue before it looks for loading models.
get_display_state_activity_first(self) ==
    CASE self.agent_state.tag = "NotReady" -> AgentNotLoaded
      [] self.agent_state.tag = "Stopped" -> ServiceStopped
      [] self.agent_state.tag = "Running" ->
            IF self.model_states = NoModels THEN ServiceLoadedNoModel
            ELSE IF has_queue_activity(self) THEN ModelProcessingQueue
            ELSE IF has_loading_models(self) THEN ModelLoading
            ELSE ModelReady

\* A display state that looks at the queue before it looks at the model map.
get_display_state_empty_last(self) ==
    CASE self.agent_state.tag = "NotReady" -> AgentNotLoaded
      [] self.agent_state.tag = "Stopped" -> ServiceStopped
      [] self.agent_state.tag = "Running" ->
            IF has_loading_models(self) THEN ModelLoading
            ELSE IF has_queue_activity(self) THEN ModelProcessingQueue
            ELSE IF self.model_states = NoModels THEN ServiceLoadedNoModel
            ELSE ModelReady

\* PluginState::get_display_state: `match self.agent_state`, arm by arm.  The
\* match has the arms NotReady, Stopped and Running, and none for Starting.
get_display_state(self) ==
    CASE self.agent_state.tag = "NotReady" -> AgentNotLoaded
      [] self.agent_state.tag = "Stopped" -> ServiceStopped
      [] self.agent_state.tag = "Running" ->
            IF self.model_states = NoModels THEN ServiceLoadedNoModel
            ELSE IF has_loading_models(self) THEN ModelLoading
            ELSE IF has_queue_activity(self) THEN ModelProcessingQueue
            ELSE ModelReady

update_model_states_no_retain(self, all_metrics) ==
    [self EXCEPT !.model_states =
        [n \in DOMAIN self.model_states \cup DOMAIN all_metrics |->
            IF n \in DOMAIN all_metrics THEN all_metrics[n].model_state
            ELSE self.model_states[n]]]

\* PluginState::update_model_states: retain the listed models, then insert each
update_model_states(self, all_metrics) ==
    LET retained == [n \in DOMAIN self.model_states \cap DOMAIN all_metrics |->
                        self.model_states[n]]
    IN  [self EXCEPT !.model_states =
            [n \in DOMAIN retained \cup DOMAIN all_metrics |->
                IF n \in DOMAIN all_metrics THEN all_metrics[n].model_state
                ELSE retained[n]]]

\* `for model_metrics in &all_metrics.models { entry(name).or_default().push(..) }`
\* at wall-clock time ts, in a process whose HISTORY_SIZE is hs
push_model_histories(h, all_metrics, hs, ts) ==
    [h EXCEPT !.models =
        [n \in DOMAIN h.models \cup DOMAIN all_metrics |->
            IF n \in DOMAIN all_metrics
            THEN push(IF n \in DOMAIN h.models THEN h.models[n] ELSE with_capacity(hs),
                      all_metrics[n].metrics, ts)
            ELSE h.models[n]]]

handle_metrics_success_keep_count(self, all_metrics, hs, ts) ==
    update_model_states(
        [self EXCEPT
            !.metrics_history =
                AllMetricsHistory_trim_old_data(
                    push_model_histories(@, all_metrics, hs, ts), ts),
            !.current_all_metrics = Some(all_metrics)],
        all_metrics)

\* PluginState::handle_metrics_success: the model histories, the trim of all
\* series, the current snapshot, the error counter, the model states
handle_metrics_success(self, all_metrics, hs, ts) ==
    update_model_states(
        [self EXCEPT
            !.metrics_history =
                AllMetricsHistory_trim_old_data(
                    push_model_histories(@, all_metrics, hs, ts), ts),
            !.current_all_metrics = Some(all_metrics),
            !.error_count = 0],
        all_metrics)

\* PluginState::handle_metrics_error
handle_metrics_error_keep_states(self) ==
    [self EXCEPT !.error_count = @ + 1,
                 !.current_all_metrics = None]

handle_metrics_error_keep_snapshot(self) ==
    [self EXCEPT !.error_count = @ + 1,
                 !.model_states = NoModels]

handle_metrics_error_clear_history(self) ==
    [self EXCEPT !.error_count = @ + 1,
                 !.model_states = NoModels,
                 !.current_all_metrics = None,
                 !.metrics_history =
                     IF self.agent_state = Running
                     THEN @
                     ELSE AllMetricsHistory_with_capacity(@.max_size)]

\* PluginState::handle_metrics_error
handle_metrics_error(self) ==
    [self EXCEPT !.error_count = @ + 1,
                 !.model_states = NoModels,
                 !.current_all_metrics = None]

update_agent_state_keep_timer(self, binary_available, t) ==
    LET old_state == self.agent_state
        new_state == from_system_check(self.service_status.plist_installed,
                                       binary_available,
                                       is_fully_running(self.service_status))
        next_state == IF old_state = Stopped /\ new_state = Running
                      THEN Running
                      ELSE new_state
    IN  [self EXCEPT !.agent_state = next_state]

update_agent_state_always_restart(self, binary_available, t) ==
    LET old_state == self.agent_state
        new_state == from_system_check(self.service_status.plist_installed,
                                       binary_available,
                                       is_fully_running(self.service_status))
        next_state == IF old_state = Stopped /\ new_state = Running
                      THEN Running
                      ELSE new_state
    IN  [self EXCEPT !.agent_state = next_state,
                     !.last_state_change = t]

update_agent_state_sticky_running(self, binary_available, t) ==
    LET old_state == self.agent_state
        new_state == from_system_check(self.service_status.plist_installed,
                                       binary_available,
                                       is_fully_running(self.service_status))
        next_state == IF old_state = Running /\ new_state = Stopped
                      THEN Running
                      ELSE new_state
    IN  [self EXCEPT !.agent_state = next_state,
                     !.last_state_change = IF next_state # old_state THEN t ELSE @]

\* PluginState::update_agent_state, at monotonic time t
update_agent_state(self, binary_available, t) ==
    LET old_state == self.agent_state
        new_state == from_system_check(self.service_status.plist_installed,
                                       binary_available,
                                       is_fully_running(self.service_status))
        next_state == IF old_state = Stopped /\ new_state = Running
                      THEN Running
                      ELSE new_state
    IN  [self EXCEPT !.agent_state = next_state,
                     !.last_state_change = IF next_state # old_state THEN t ELSE @]

\* PluginState::update_polling_mode, at monotonic time t
update_polling_mode(self, t) ==
    LET elapsed == t - self.last_state_change
        state_changed == elapsed < 100
    IN  [self EXCEPT !.polling_mode =
            compute(self.polling_mode, state_changed, has_queue_activity(self), elapsed)]

\* PluginState::update_state: the probe, the status checks, the agent state,
\* the polling mode
\* the head of PluginState::update_state: the system metrics are pushed onto
\* the global series, stamped with the wall-clock time ts
push_system_metrics(h, system_metrics, ts) ==
    [h EXCEPT
        !.cpu_usage_percent = CircularQueue_push(
            @, TimestampedValue(ts, system_metrics.cpu_usage_percent), h.max_size),
        !.memory_usage_percent = CircularQueue_push(
            @, TimestampedValue(ts, system_metrics.memory_usage_percent), h.max_size),
        !.used_memory_gb = CircularQueue_push(
            @, TimestampedValue(ts, system_metrics.used_memory_gb), h.max_size),
        !.total_llama_memory_mb = CircularQueue_push(
            @, TimestampedValue(ts, system_metrics.llama_memory_mb), h.max_size)]

update_state(self, system_metrics, probe, plist_installed, launchctl_loaded, process_running, binary_available, hs, ts, t) ==
    LET api_success == probe # None
        s0 == [self EXCEPT !.metrics_history = push_system_metrics(@, system_metrics, ts)]
        s1 == IF api_success
              THEN handle_metrics_success(s0, probe[1], hs, ts)
              ELSE handle_metrics_error(s0)
        s2 == [s1 EXCEPT !.service_status =
                  ServiceStatus_update(plist_installed, launchctl_loaded,
                                       process_running, api_success)]
        s3 == update_agent_state(s2, binary_available, t)
    IN  update_polling_mode(s3, t)

\* PluginState::new, at monotonic time t, in a process whose HISTORY_SIZE is hs
new(plist_installed, launchctl_loaded, process_running, binary_available, hs, t) ==
    LET status == ServiceStatus_update(plist_installed, launchctl_loaded,
                                       process_running, FALSE)
    IN  [service_status |-> status,
         agent_state |-> from_system_check(status.plist_installed, binary_available,
                                           is_fully_running(status)),
         polling_mode |-> Idle,
         model_states |-> NoModels,
         current_all_metrics |-> None,
         error_count |-> 0,
         last_state_change |-> t,
         metrics_history |-> AllMetricsHistory_with_capacity(hs)]

----------------------------------------------------------------------------
\* Operations on the plugin state

ProbeResults == {None} \cup { Some(m) : m \in AllMetricsInputs }

\* What the system checks of one iteration answer: is_service_installed,
\* is_service_loaded, is_service_running, find_llama_swap_binary().is_ok()
SystemChecks == BOOLEAN \X BOOLEAN \X BOOLEAN \X BOOLEAN

\* The answers on a machine where the service is installed, loaded and running.
ServiceUp == { <<TRUE, TRUE, TRUE, TRUE>> }

\* one iteration of the control loop, PluginState::update_state(), with the
\* system metrics, the probe's answer and the system checks drawn from the
\* given sets
Iteration(system_inputs, probes, checks) ==
    \E system_metrics \in system_inputs, probe \in probes, c \in checks :
        /\ probe = None => error_count < MaxErrors
        /\ \E s \in { update_state(Self, system_metrics, probe, c[1], c[2], c[3], c[4],
                                    HISTORY_SIZE, now, mono) } :
               /\ service_status' = s.service_status
               /\ agent_state' = s.agent_state
               /\ polling_mode' = s.polling_mode
               /\ model_states' = s.model_states
               /\ current_all_metrics' = s.current_all_metrics
               /\ error_count' = s.error_count
               /\ last_state_change' = s.last_state_change
               /\ metrics_history' = s.metrics_history
        /\ last_update' = [updated |-> TRUE,
                           old_agent_state |-> agent_state,
                           binary_available |-> c[4],
                           api_success |-> probe # None,
                           timestamp |-> now,
                           old_polling_mode |-> polling_mode,
                           old_error_count |-> error_count,
                           failed_probes |-> IF probe = None
                                             THEN last_update.failed_probes + 1
                                             ELSE 0]
        /\ UNCHANGED <<mono, display, insights, control, machineVars>>

\* an iteration, whatever the system checks answer, on a machine of steady load
UpdateState == Iteration(SteadySystemMetrics, ProbeResults, SystemChecks)

\* an iteration on a machine where the service is up
UpdateStateServiceUp == Iteration(SystemMetricsInputs, ProbeResults, ServiceUp)

\* the menu asks for the display state: PluginState::get_display_state().  For
\* AgentState::Starting the match has no arm, and which DisplayState a build
\* yields there is not fixed by the code.
Display ==
    /\ display' \in { Some(d) : d \in
            IF agent_state.tag \in {"NotReady", "Stopped", "Running"}
            THEN { get_display_state(Self) }
            ELSE DisplayStates }
    /\ UNCHANGED <<mono, service_status, agent_state, polling_mode, model_states,
                   current_all_metrics, error_count, last_state_change,
                   metrics_history, last_update, insights, control, machineVars>>

\* the control loop sleeps for a polling interval; the record of the last
\* iteration describes an iteration only until the loop sleeps
Sleep ==
    \E m \in PollingModes :
        /\ mono + interval(m) <= MaxMono
        /\ mono' = mono + interval(m)
        /\ last_update' = [last_update EXCEPT !.updated = FALSE,
                                              !.old_agent_state = agent_state,
                                              !.api_success = FALSE,
                                              !.old_polling_mode = polling_mode,
                                              !.old_error_count = error_count]
        /\ UNCHANGED <<service_status, agent_state, polling_mode, model_states,
                       current_all_metrics, error_count, last_state_change,
                       metrics_history, display, insights, control, machineVars>>

----------------------------------------------------------------------------
\* main.rs: the control loop of run_streaming_mode and adaptive_sleep; the
\* channel-based sleep of tests/sleep_mechanism_tests.rs.  Durations are in
\* milliseconds.

\* No loop is running and no sleep has been called.
NotStarted ==
    [pc |-> "not_started", fn |-> "none", caller |-> "none", running |-> TRUE,
     channel |-> "open", duration |-> 0, chunks_left |-> 0, slept |-> 0,
     signal_in_sleep |-> FALSE, render_after_signal |-> FALSE]

\* The durations a sleep is asked for: the polling intervals, and those of the
\* tests (zero, 100 ms, 500 ms, 1 s) with one between two whole seconds.
SleepDurations == {0, 100, 500, 1000, 1500, 2000, 3000}

\* How long after the start of a sleep a signal can come.
SignalOffsets == {0, 200, 1200}

\* `duration.as_secs().max(1)`
sleep_chunks(duration) == Max(duration \div 1000, 1)

\* where a sleep returns to: the loop of run_streaming_mode, or a test
return_pc(c) == IF c.caller = "loop" THEN "loop_test" ELSE "returned"

\* run_streaming_mode starts: setup_shutdown_handler, PluginState::new
StartLoop ==
    /\ control.pc = "not_started"
    /\ control' = [control EXCEPT !.pc = "loop_test", !.caller = "loop",
                                  !.fn = "adaptive_sleep"]

\* `while running.load(Ordering::SeqCst)`
LoopTest ==
    /\ control.pc = "loop_test"
    /\ control' = [control EXCEPT !.pc = IF control.running THEN "render" ELSE "exited"]

\* render_frame, the print of the frame, and the call of adaptive_sleep with
\* the interval of the polling mode, whichever it is
RenderFrame ==
    /\ control.pc = "render"
    /\ \E m \in PollingModes :
          control' = [control EXCEPT !.pc = "chunk_test",
                                     !.duration = interval(m),
                                     !.chunks_left = sleep_chunks(interval(m)),
                                     !.slept = 0,
                                     !.render_after_signal = control.signal_in_sleep]

\* adaptive_sleep is called on its own, as the tests call their sleep
CallAdaptiveSleep ==
    /\ control.pc = "not_started"
    /\ \E duration \in SleepDurations :
          control' = [control EXCEPT !.pc = "chunk_test", !.caller = "test",
                                     !.fn = "adaptive_sleep",
                                     !.duration = duration,
                                     !.chunks_left = sleep_chunks(duration)]

\* `for _ in 0..sleep_chunks { if !running.load(..) { break; } ..`
ChunkTest ==
    /\ control.pc = "chunk_test"
    /\ control' = IF control.chunks_left = 0 \/ ~control.running
                  THEN [control EXCEPT !.pc = "remainder"]
                  ELSE [control EXCEPT !.pc = "chunk_sleep", !.chunks_left = @ - 1]

\* `thread::sleep(chunk_duration)`
ChunkSleep ==
    /\ control.pc = "chunk_sleep"
    /\ control' = [control EXCEPT !.pc = "chunk_test", !.slept = @ + 1000]

\* `let remainder = duration - Duration::from_secs(sleep_chunks)`, which panics
\* when the difference is negative, and the test of the remainder
Remainder ==
    /\ control.pc = "remainder"
    /\ LET whole == 1000 * sleep_chunks(control.duration)
       IN  control' =
               IF control.duration < whole
               THEN [control EXCEPT !.pc = "panicked"]
               ELSE IF control.duration - whole > 0 /\ control.running
               THEN [control EXCEPT !.pc = "remainder_sleep"]
               ELSE [control EXCEPT !.pc = return_pc(control)]

\* `thread::sleep(remainder)`
RemainderSleep ==
    /\ control.pc = "remainder_sleep"
    /\ control' = [control EXCEPT
                      !.pc = return_pc(control),
                      !.slept = @ + (control.duration - 1000 * sleep_chunks(control.duration))]

\* the handler of setup_shutdown_handler runs: `r.store(false, ..)`.  The
\* request comes during the sleep when the thread is in thread::sleep.
ShutdownHandler ==
    /\ control.fn = "adaptive_sleep"
    /\ control.pc \in {"loop_test", "render", "chunk_test", "chunk_sleep",
                       "remainder", "remainder_sleep"}
    /\ control.running
    /\ control' = [control EXCEPT
                      !.running = FALSE,
                      !.signal_in_sleep = control.pc \in {"chunk_sleep", "remainder_sleep"}]

\* a test calls improved_adaptive_sleep: `shutdown_rx.recv_timeout(duration)`
\* returns when the duration has elapsed, or before it with the signal a sender
\* sent or with the disconnection of a sender dropped
ImprovedAdaptiveSleep ==
    /\ control.pc = "not_started"
    /\ \E duration \in SleepDurations,
          outcome \in {"timeout", "received", "disconnected"},
          offset \in SignalOffsets :
          /\ outcome # "timeout" => offset < duration
          /\ control' = [control EXCEPT
                            !.pc = "returned", !.caller = "test",
                            !.fn = "improved_adaptive_sleep",
                            !.duration = duration,
                            !.slept = IF outcome = "timeout" THEN duration ELSE offset,
                            !.channel = IF outcome = "received" THEN "sent"
                                        ELSE IF outcome = "disconnected" THEN "disconnected"
                                        ELSE "open",
                            !.signal_in_sleep = outcome # "timeout"]

----------------------------------------------------------------------------
\* state_machines/agent.rs: the Agent state machine.  Its states are
\* "NotInstalled", "Stopped", "Starting" and "Running"; an event is a record
\* of its name and its data.

\* AgentContext::new
AgentContext_new ==
    [transition_start_time |-> None, startup_timeout |-> startup_timeout]

\* AgentContext::should_complete_startup, at monotonic time t
should_complete_startup(context, t) ==
    IF context.transition_start_time # None
    THEN t - context.transition_start_time[1] >= context.startup_timeout
    ELSE FALSE

\* the guard service_is_running: `Ok(event.0)`
service_is_running(event) == event.data

\* the guard service_still_running: `Ok(self.transition_start_time.is_some())`
service_still_running(context) == context.transition_start_time # None

\* the action start_transition_timer, at monotonic time t
start_transition_timer(context, t) ==
    [context EXCEPT !.transition_start_time = Some(t)]

ServiceDetected(running) == [name |-> "ServiceDetected", data |-> running]

StartupComplete == [name |-> "StartupComplete", data |-> FALSE]

\* the transitions of `statemachine! { name: Agent, .. }`: process_event on a
\* machine in `state` with `context`, at monotonic time t; an event with no
\* transition from the state is an error that leaves the machine as it is
Agent_process_event(state, context, event, t) ==
    LET stay == [state |-> state, context |-> context]
        to(s) == [state |-> s, context |-> context]
    IN  IF event.name = "ServiceDetected"
        THEN IF state \in {"NotInstalled", "Stopped"}
             THEN IF service_is_running(event)
                  THEN [state |-> "Starting",
                        context |-> start_transition_timer(context, t)]
                  ELSE stay
             ELSE IF state = "Starting"
             THEN IF service_is_running(event) THEN stay ELSE to("Stopped")
             ELSE IF service_is_running(event) THEN to("Running") ELSE to("Stopped")
        ELSE IF state = "Starting"
             THEN IF service_still_running(context)
                  THEN to("Running")
                  ELSE to("Stopped")
             ELSE stay

\* AgentStateMachine::new(AgentContext::new()), for a service that runs or
\* not: the machine is in its initial state and has processed no event
NewAgentMachine ==
    /\ agent_machine = None
    /\ \E running \in BOOLEAN :
          agent_machine' = Some([state |-> "NotInstalled",
                                 context |-> AgentContext_new,
                                 service_running |-> running,
                                 from |-> "NotInstalled",
                                 event |-> "none",
                                 running_at_event |-> FALSE])
    /\ UNCHANGED <<polling_mode_machine, program_machine>>

\* the machine processes `event` at the time mono
AgentEvent(event) ==
    /\ agent_machine # None
    /\ LET m == agent_machine[1]
           after == Agent_process_event(m.state, m.context, event, mono)
       IN  agent_machine' = Some([m EXCEPT !.state = after.state,
                                           !.context = after.context,
                                           !.from = m.state,
                                           !.event = event.name,
                                           !.running_at_event = m.service_running])
    /\ UNCHANGED <<polling_mode_machine, program_machine>>

\* the owner of the machine has detected whether the service runs, and tells
\* the machine
AgentServiceDetected ==
    /\ agent_machine # None
    /\ AgentEvent(ServiceDetected(agent_machine[1].service_running))

\* the owner of the machine finds the startup timeout elapsed, and tells the
\* machine
AgentStartupComplete ==
    /\ agent_machine # None
    /\ should_complete_startup(agent_machine[1].context, mono)
    /\ AgentEvent(StartupComplete)

\* the service starts, or stops
ServiceChanges ==
    /\ agent_machine # None
    /\ agent_machine' = Some([agent_machine[1] EXCEPT !.service_running = ~@])
    /\ UNCHANGED <<polling_mode_machine, program_machine>>

----------------------------------------------------------------------------
\* state_machines/program.rs: the Program state machine, and the derivation
\* of main.rs it stands for.  The states are the names of ProgramStates.

AgentStates_names == {"NotInstalled", "Stopped", "Starting", "Running"}

ProgramStates ==
    {AgentNotLoaded, AgentStarting, ServiceLoadedNoModel, ModelLoading,
     ModelProcessingQueue, ModelReady}

\* AgentUpdate(agent), as the data of the event AgentStateChanged
AgentStateChanged(agent) ==
    [name |-> "AgentStateChanged", agent |-> agent,
     has_models |-> FALSE, has_loading |-> FALSE, has_activity |-> FALSE]

\* ModelUpdate { has_models, has_loading, has_activity }, as the data of the
\* event ModelStateChanged
ModelStateChanged(has_models, has_loading, has_activity) ==
    [name |-> "ModelStateChanged", agent |-> "NotInstalled",
     has_models |-> has_models, has_loading |-> has_loading,
     has_activity |-> has_activity]

\* the guards of ProgramContext
agent_is_stopped_or_not_installed(event) == event.agent \in {"NotInstalled", "Stopped"}

agent_is_starting(event) == event.agent = "Starting"

agent_is_running(event) == event.agent = "Running"

\* The transitions on AgentStateChanged without those of a running agent.
Program_agent_state_changed_no_running(state, event) ==
    IF agent_is_stopped_or_not_installed(event) THEN AgentNotLoaded
    ELSE IF agent_is_starting(event) THEN AgentStarting
    ELSE state

\* the transitions on AgentStateChanged: a running agent moves the machine
\* from AgentNotLoaded and AgentStarting only, and is an error elsewhere
Program_agent_state_changed(state, event) ==
    IF agent_is_stopped_or_not_installed(event) THEN AgentNotLoaded
    ELSE IF agent_is_starting(event) THEN AgentStarting
    ELSE IF agent_is_running(event) /\ state \in {AgentNotLoaded, AgentStarting}
    THEN ServiceLoadedNoModel
    ELSE state

\* the transitions on ModelStateChanged: an error in AgentNotLoaded and
\* AgentStarting
Program_model_state_changed(state, event) ==
    IF state \in {AgentNotLoaded, AgentStarting} THEN state
    ELSE IF ~event.has_models THEN ServiceLoadedNoModel
    ELSE IF event.has_loading THEN ModelLoading
    ELSE IF event.has_activity THEN ModelProcessingQueue
    ELSE ModelReady

\* the transitions of `statemachine! { name: Program, .. }`
Program_process_event(state, event) ==
    IF event.name = "AgentStateChanged"
    THEN Program_agent_state_changed(state, event)
    ELSE Program_model_state_changed(state, event)

\* main.rs: PluginState::determine_program_state_from_agent_and_models, of the
\* agent state and of what it reads in the metrics: whether there are models,
\* whether one is loading, whether a running one has requests
determine_program_state_from_agent_and_models(agent, has_models, has_loading, has_activity) ==
    IF agent \in {"NotInstalled", "Stopped"} THEN AgentNotLoaded
    ELSE IF agent = "Starting" THEN AgentStarting
    ELSE IF ~has_models THEN ServiceLoadedNoModel
    ELSE IF has_loading THEN ModelLoading
    ELSE IF has_activity THEN ModelProcessingQueue
    ELSE ModelReady

\* ProgramStateMachine::new(ProgramContext::new())
NewProgramMachine ==
    /\ program_machine = None
    /\ program_machine' = Some([state |-> AgentNotLoaded,
                                cycle |-> "none",
                                from |-> AgentNotLoaded,
                                agent |-> "NotInstalled",
                                update |-> ModelStateChanged(FALSE, FALSE, FALSE)])
    /\ UNCHANGED <<agent_machine, polling_mode_machine>>

\* a cycle begins: the machine is fed the agent state of the cycle
ProgramAgentUpdate ==
    /\ program_machine # None
    /\ program_machine[1].cycle # "agent"
    /\ \E agent \in AgentStates_names :
          LET m == program_machine[1]
          IN  program_machine' =
                  Some([m EXCEPT
                           !.state = Program_process_event(m.state, AgentStateChanged(agent)),
                           !.cycle = "agent",
                           !.from = m.state,
                           !.agent = agent])
    /\ UNCHANGED <<agent_machine, polling_mode_machine>>

\* the cycle ends: the machine is fed what the metrics of the cycle say of
\* the models
ProgramModelUpdate ==
    /\ program_machine # None
    /\ program_machine[1].cycle = "agent"
    /\ \E has_models \in BOOLEAN, has_loading \in BOOLEAN, has_activity \in BOOLEAN :
          LET m == program_machine[1]
              event == ModelStateChanged(has_models, has_loading, has_activity)
          IN  program_machine' =
                  Some([m EXCEPT !.state = Program_process_event(m.state, event),
                                 !.cycle = "models",
                                 !.update = event])
    /\ UNCHANGED <<agent_machine, polling_mode_machine>>

----------------------------------------------------------------------------
\* state_machines/polling_mode.rs: the PollingMode state machine.  Its states
\* are "Idle", "Active" and "Starting".

\* The minimum durations a PollingModeContext is given, in milliseconds.
MinimumDurations == {2000, 5000}

\* PollingModeContext::new, with its minimum duration
PollingModeContext_new(minimum_duration) ==
    [transition_start_time |-> None, minimum_duration |-> minimum_duration,
     current_activity |-> FALSE]

\* PollingModeContext::update_activity
update_activity(context, activity) == [context EXCEPT !.current_activity = activity]

\* A test of the minimum duration that every instant passes.
should_complete_minimum_duration_at_once(context, t) == TRUE

\* PollingModeContext::should_complete_minimum_duration, at monotonic time t
should_complete_minimum_duration(context, t) ==
    IF context.transition_start_time # None
    THEN t - context.transition_start_time[1] >= context.minimum_duration
    ELSE TRUE

\* the guards of PollingModeContext
has_activity(event) == event.data

duration_elapsed_with_activity(context, t) ==
    should_complete_minimum_duration(context, t) /\ context.current_activity

duration_elapsed_without_activity(context, t) ==
    should_complete_minimum_duration(context, t) /\ ~context.current_activity

minimum_duration_elapsed(context, t) == should_complete_minimum_duration(context, t)

\* the actions start_transition_timer and restart_transition_timer
restart_transition_timer(context, t) ==
    [context EXCEPT !.transition_start_time = Some(t)]

StateChangeDetected == [name |-> "StateChangeDetected", data |-> FALSE]

ActivityCheck(activity) == [name |-> "ActivityCheck", data |-> activity]

MinimumDurationComplete == [name |-> "MinimumDurationComplete", data |-> FALSE]

\* the transitions of `statemachine! { name: PollingMode, .. }`: process_event
\* at monotonic time t; an event with no transition from the state, or whose
\* guards all fail, is an error that leaves the machine as it is
PollingMode_process_event(state, context, event, t) ==
    LET stay == [state |-> state, context |-> context]
        to(s) == [state |-> s, context |-> context]
    IN  IF event.name = "StateChangeDetected"
        THEN [state |-> "Starting", context |-> restart_transition_timer(context, t)]
        ELSE IF event.name = "ActivityCheck"
        THEN IF state = "Starting" /\ ~minimum_duration_elapsed(context, t)
             THEN stay
             ELSE IF has_activity(event) THEN to(Active) ELSE to(Idle)
        ELSE IF state = "Starting"
             THEN IF duration_elapsed_with_activity(context, t) THEN to(Active)
                  ELSE IF duration_elapsed_without_activity(context, t) THEN to(Idle)
                  ELSE stay
             ELSE stay

\* PollingModeStateMachine::new(context), with a context of some minimum
\* duration: the machine is Idle and has processed no event
NewPollingModeMachine ==
    /\ polling_mode_machine = None
    /\ \E minimum_duration \in MinimumDurations :
          polling_mode_machine' =
              Some([state |-> Idle,
                    context |-> PollingModeContext_new(minimum_duration),
                    from |-> Idle,
                    event |-> "none",
                    last_change |-> None,
                    processed_at |-> 0])
    /\ UNCHANGED <<agent_machine, program_machine>>

\* the machine processes `event` at the time mono
PollingModeEvent(event) ==
    /\ polling_mode_machine # None
    /\ LET m == polling_mode_machine[1]
           after == PollingMode_process_event(m.state, m.context, event, mono)
       IN  polling_mode_machine' =
               Some([m EXCEPT !.state = after.state,
                              !.context = after.context,
                              !.from = m.state,
                              !.event = event.name,
                              !.last_change = IF event.name = "StateChangeDetected"
                                              THEN Some(mono)
                                              ELSE @,
                              !.processed_at = mono])
    /\ UNCHANGED <<agent_machine, program_machine>>

PollingStateChangeDetected == PollingModeEvent(StateChangeDetected)

PollingActivityCheck == \E activity \in BOOLEAN : PollingModeEvent(ActivityCheck(activity))

PollingMinimumDurationComplete == PollingModeEvent(MinimumDurationComplete)

\* the owner of the machine tells the context of the activity it sees
PollingUpdateActivity ==
    /\ polling_mode_machine # None
    /\ \E activity \in BOOLEAN :
          /\ activity # polling_mode_machine[1].context.current_activity
          /\ polling_mode_machine' =
                 Some([polling_mode_machine[1] EXCEPT
                          !.context = update_activity(@, activity)])
    /\ UNCHANGED <<agent_machine, program_machine>>

\* No state machine has been built.
MachinesAtRest ==
    /\ agent_machine = None
    /\ polling_mode_machine = None
    /\ program_machine = None

----------------------------------------------------------------------------
\* Specifications

\* a fresh process with an empty history and no persisted file
InitHistory ==
    /\ now = 0
    /\ HISTORY_SIZE \in Capacities
    /\ history = with_capacity(HISTORY_SIZE)
    /\ disk = <<>>
    /\ op = FirstOp
    /\ pushed = <<>>

\* PluginState::new()
InitPlugin ==
    /\ mono = 0
    /\ \E plist_installed \in BOOLEAN, launchctl_loaded \in BOOLEAN,
          process_running \in BOOLEAN, binary_available \in BOOLEAN :
          LET s == new(plist_installed, launchctl_loaded, process_running,
                       binary_available, 0, mono)
          IN  /\ service_status = s.service_status
              /\ agent_state = s.agent_state
              /\ polling_mode = s.polling_mode
              /\ model_states = s.model_states
              /\ current_all_metrics = s.current_all_metrics
              /\ error_count = s.error_count
              /\ last_state_change = s.last_state_change
              /\ metrics_history = s.metrics_history
              /\ last_update = [updated |-> FALSE,
                                old_agent_state |-> s.agent_state,
                                binary_available |-> binary_available,
                                api_success |-> FALSE,
                                timestamp |-> 0,
                                old_polling_mode |-> Idle,
                                old_error_count |-> 0,
                                failed_probes |-> 0]
    /\ display = None
    /\ insights = None
    /\ control = NotStarted
    /\ MachinesAtRest

\* the plugin state of a process in which nothing is installed
PluginAtRest ==
    /\ mono = 0
    /\ LET s == new(FALSE, FALSE, FALSE, FALSE, 0, 0)
       IN  /\ service_status = s.service_status
           /\ agent_state = s.agent_state
           /\ polling_mode = s.polling_mode
           /\ model_states = s.model_states
           /\ current_all_metrics = s.current_all_metrics
           /\ error_count = s.error_count
           /\ last_state_change = s.last_state_change
           /\ metrics_history = s.metrics_history
           /\ last_update = [updated |-> FALSE,
                             old_agent_state |-> s.agent_state,
                             binary_available |-> FALSE,
                             api_success |-> FALSE,
                             timestamp |-> 0,
                             old_polling_mode |-> Idle,
                             old_error_count |-> 0,
                             failed_probes |-> 0]
    /\ display = None
    /\ insights = None
    /\ control = NotStarted
    /\ MachinesAtRest

HistoryAtRest ==
    /\ now = 0
    /\ HISTORY_SIZE = 0
    /\ history = with_capacity(0)
    /\ disk = <<>>
    /\ op = FirstOp
    /\ pushed = <<>>

Init == InitHistory /\ PluginAtRest

Next ==
    \/ (Restart /\ UNCHANGED pluginVars)
    \/ (WithCapacity /\ UNCHANGED pluginVars)
    \/ (Push /\ UNCHANGED pluginVars)
    \/ (TrimOldData /\ UNCHANGED pluginVars)
    \/ (Clear /\ UNCHANGED pluginVars)
    \/ (SaveMetrics /\ UNCHANGED pluginVars)
    \/ (LoadMetrics /\ UNCHANGED pluginVars)
    \/ (ClearPersistence /\ UNCHANGED pluginVars)
    \/ (Tick /\ UNCHANGED pluginVars)

\* the metrics history and its persistence
Spec == Init /\ [][Next]_vars

NextPlugin ==
    \/ (UpdateState /\ UNCHANGED histVars)
    \/ (Sleep /\ UNCHANGED histVars)

InitP == HistoryAtRest /\ InitPlugin

\* the plugin state under the control loop
SpecPlugin == InitP /\ [][NextPlugin]_vars

\* What the system checks answer on a machine whose service is up, stopped, or
\* not installed; the binary is there.
SettleChecks == { <<TRUE, TRUE, TRUE, TRUE>>, <<TRUE, TRUE, FALSE, TRUE>>,
                  <<FALSE, FALSE, FALSE, TRUE>> }

\* What a probe answers there: nothing, or models that are loaded, with
\* requests or without.
SettleProbes ==
    { p \in ProbeResults :
        p # None => \A n \in DOMAIN p[1] : p[1][n].model_state = "Running" }

\* an iteration on such a machine
UpdateSettle == Iteration(SteadySystemMetrics, SettleProbes, SettleChecks)

\* the control loop sleeps for a polling interval, on a clock that has no end:
\* once Instant::now() would pass MaxMono the readings are kept at MaxMono and
\* the instant of the last state change is moved back by as much, down to 0,
\* which keeps every elapsed time below MaxMono exact
SleepOn ==
    \E m \in PollingModes :
        LET after == mono + interval(m)
            shift == IF after > MaxMono THEN after - MaxMono ELSE 0
        IN  /\ mono' = after - shift
            /\ last_state_change' = saturating_sub(last_state_change, shift)
            /\ last_update' = [last_update EXCEPT !.updated = FALSE,
                                                  !.old_agent_state = agent_state,
                                                  !.api_success = FALSE,
                                                  !.old_polling_mode = polling_mode,
                                                  !.old_error_count = error_count]
            /\ UNCHANGED <<service_status, agent_state, polling_mode, model_states,
                           current_all_metrics, error_count, metrics_history,
                           display, insights, control, machineVars>>

NextSettle ==
    \/ (UpdateSettle /\ UNCHANGED histVars)
    \/ (SleepOn /\ UNCHANGED histVars)

InitSettle == HistoryAtRest /\ PluginAtRest

\* the control loop for ever: it goes on updating and it goes on sleeping
SpecSettle ==
    /\ InitSettle
    /\ [][NextSettle]_vars
    /\ WF_vars(UpdateSettle /\ UNCHANGED histVars)
    /\ WF_vars(SleepOn /\ UNCHANGED histVars)

\* The plugin states the display state is computed from: every agent state,
\* every map of model states and every current snapshot over DisplayModelNames.
DisplayModelNames == {"m1", "m2"}

AgentStates == {NotReady(BinaryNotFound), NotReady(PlistMissing), Stopped, Starting, Running}

InitDisplay ==
    /\ HistoryAtRest
    /\ mono = 0
    /\ service_status = ServiceStatus(FALSE, FALSE, FALSE, FALSE)
    /\ agent_state \in AgentStates
    /\ polling_mode = Idle
    /\ model_states \in UNION { [D -> ModelStates] : D \in SUBSET DisplayModelNames }
    /\ current_all_metrics \in
          {None} \cup { Some(m) : m \in UNION { [D -> ModelEntries] : D \in SUBSET DisplayModelNames } }
    /\ error_count = 0
    /\ last_state_change = 0
    /\ metrics_history = AllMetricsHistory_with_capacity(0)
    /\ last_update = [updated |-> FALSE, old_agent_state |-> agent_state,
                      binary_available |-> FALSE, api_success |-> FALSE, timestamp |-> 0,
                      old_polling_mode |-> Idle, old_error_count |-> 0,
                      failed_probes |-> 0]
    /\ display = None
    /\ insights = None
    /\ control = NotStarted
    /\ MachinesAtRest

NextDisplay == Display /\ UNCHANGED histVars

\* the display state, as a function of the plugin state
SpecDisplay == InitDisplay /\ [][NextDisplay]_vars

\* a process that keeps up to HISTORY_SIZE >= 1 samples per series, started on
\* a machine where the service is up
InitMetrics ==
    /\ now = 0
    /\ HISTORY_SIZE \in 1..MaxCapacity
    /\ history = with_capacity(HISTORY_SIZE)
    /\ disk = <<>>
    /\ op = FirstOp
    /\ pushed = <<>>
    /\ mono = 0
    /\ LET s == new(TRUE, TRUE, TRUE, TRUE, HISTORY_SIZE, 0)
       IN  /\ service_status = s.service_status
           /\ agent_state = s.agent_state
           /\ polling_mode = s.polling_mode
           /\ model_states = s.model_states
           /\ current_all_metrics = s.current_all_metrics
           /\ error_count = s.error_count
           /\ last_state_change = s.last_state_change
           /\ metrics_history = s.metrics_history
           /\ last_update = [updated |-> FALSE,
                             old_agent_state |-> s.agent_state,
                             binary_available |-> TRUE,
                             api_success |-> FALSE,
                             timestamp |-> 0,
                             old_polling_mode |-> Idle,
                             old_error_count |-> 0,
                             failed_probes |-> 0]
    /\ display = None
    /\ insights = None
    /\ control = NotStarted
    /\ MachinesAtRest

\* the wall clock advances while the control loop is not running
WallClock ==
    /\ Tick
    /\ UNCHANGED <<pluginVars>>

NextMetrics ==
    \/ (UpdateStateServiceUp /\ UNCHANGED histVars)
    \/ WallClock

\* the metrics history of the plugin state under the control loop
SpecMetrics == InitMetrics /\ [][NextMetrics]_vars

\* the plugin state under update iterations and the menu's reads of the
\* display state, in any order
NextRender ==
    \/ (UpdateState /\ UNCHANGED histVars)
    \/ (Display /\ UNCHANGED histVars)

InitRender == HistoryAtRest /\ InitPlugin

SpecRender == InitRender /\ [][NextRender]_vars

\* What a probe answers on a machine that serves up to two models.
TwoModelProbes ==
    {None} \cup { Some(m) : m \in UNION { [D -> ModelEntries] : D \in SUBSET DisplayModelNames } }

\* an iteration on a machine of steady load where the service is up and serves
\* up to two models
UpdateTwoModels == Iteration(SteadySystemMetrics, TwoModelProbes, ServiceUp)

NextModels == UpdateTwoModels /\ UNCHANGED histVars

\* the model states and the model histories under probes that list up to two
\* models
SpecModels == InitMetrics /\ [][NextModels]_vars

\* Series for the trend and the anomaly: a run of i samples of value a, then a
\* run of j samples of value b, one sample every `step` seconds, the newest
\* `lag` seconds before the time t.
MaxRun == 6

TrendValues == {0, 1, 2, 3, 4, 10}

TrendSteps == {1, 6, 12, 25}

TrendLags == {0, 20}

TrendTimes == {10, 400}

TrendSeries(a, i, b, j, step, lag, t) ==
    [k \in 1..(i + j) |->
        TimestampedValue(saturating_sub(t, lag + (i + j - k) * step),
                         IF k <= i THEN a ELSE b)]

\* the series of that shape whose samples all lie in the retention window of
\* their newest sample, with the time at which they are looked at
TrendInputs ==
    { [deque |-> TrendSeries(a, i, b, j, step, lag, t), t |-> t] :
        a \in TrendValues, i \in 0..MaxRun, b \in TrendValues, j \in 0..MaxRun,
        step \in { st \in TrendSteps : 2 * MaxRun * st <= RetentionSecs },
        lag \in TrendLags, t \in TrendTimes }

\* a history whose tps series is one of those series, in a process that keeps
\* 2 * MaxRun samples per series
InitTrend ==
    /\ \E in \in TrendInputs :
          /\ now = in.t
          /\ history = [with_capacity(2 * MaxRun) EXCEPT !.tps = in.deque]
    /\ HISTORY_SIZE = 2 * MaxRun
    /\ disk = <<>>
    /\ op = FirstOp
    /\ pushed = <<>>
    /\ PluginAtRest

\* MetricsHistory::get_insights asks for the trend of the series
GetTrend ==
    /\ insights' = Some([kind |-> "trend",
                         trend |-> calculate_trend(history.tps, now),
                         choice |-> trend_window(history.tps, now).choice,
                         window_secs |-> trend_window(history.tps, now).window_secs])
    /\ UNCHANGED <<histVars, mono, service_status, agent_state, polling_mode,
                   model_states, current_all_metrics, error_count,
                   last_state_change, metrics_history, last_update, display, control, machineVars>>

\* MetricsHistory::detect_anomaly for the newest sample of the series
DetectAnomaly ==
    /\ history.tps # <<>>
    /\ LET current == history.tps[Len(history.tps)].value
       IN  insights' = Some([kind |-> "anomaly",
                             current |-> current,
                             anomalous |-> detect_anomaly(history.tps, current)])
    /\ UNCHANGED <<histVars, mono, service_status, agent_state, polling_mode,
                   model_states, current_all_metrics, error_count,
                   last_state_change, metrics_history, last_update, display, control, machineVars>>

NextTrend ==
    \/ GetTrend
    \/ DetectAnomaly

\* the trend and the anomaly flag, as functions of a series
SpecTrend == InitTrend /\ [][NextTrend]_vars

\* Series that leave their first value and come back to it: n samples, the
\* first and the last of value a and those between of value b, one sample
\* every `step` seconds, the newest `lag` seconds before the time t.
PeakSeries(a, b, n, step, lag, t) ==
    [k \in 1..n |->
        TimestampedValue(saturating_sub(t, lag + (n - k) * step),
                         IF k \in {1, n} THEN a ELSE b)]

PeakInputs ==
    { [deque |-> PeakSeries(a, b, n, step, lag, t), t |-> t] :
        a \in TrendValues, b \in TrendValues, n \in 3..MaxRun,
        step \in { st \in TrendSteps : 2 * MaxRun * st <= RetentionSecs },
        lag \in TrendLags, t \in TrendTimes }

\* a history whose tps series is a series of two runs, or one that comes back
\* to its first value
InitPeak ==
    /\ \E in \in TrendInputs \cup PeakInputs :
          /\ now = in.t
          /\ history = [with_capacity(2 * MaxRun) EXCEPT !.tps = in.deque]
    /\ HISTORY_SIZE = 2 * MaxRun
    /\ disk = <<>>
    /\ op = FirstOp
    /\ pushed = <<>>
    /\ PluginAtRest

\* the trend and the anomaly flag, of the series of both shapes
SpecPeak == InitPeak /\ [][NextTrend]_vars

\* the plugin state but for the state machines
restPluginVars ==
    <<mono, service_status, agent_state, polling_mode, model_states,
      current_all_metrics, error_count, last_state_change, metrics_history,
      last_update, display, insights, control>>

\* everything but the control loop
restVars ==
    <<histVars, mono, service_status, agent_state, polling_mode, model_states,
      current_all_metrics, error_count, last_state_change, metrics_history,
      last_update, display, insights, machineVars>>

NextSleep ==
    \/ (StartLoop /\ UNCHANGED restVars)
    \/ (LoopTest /\ UNCHANGED restVars)
    \/ (RenderFrame /\ UNCHANGED restVars)
    \/ (CallAdaptiveSleep /\ UNCHANGED restVars)
    \/ (ChunkTest /\ UNCHANGED restVars)
    \/ (ChunkSleep /\ UNCHANGED restVars)
    \/ (Remainder /\ UNCHANGED restVars)
    \/ (RemainderSleep /\ UNCHANGED restVars)
    \/ (ShutdownHandler /\ UNCHANGED restVars)
    \/ (ImprovedAdaptiveSleep /\ UNCHANGED restVars)

InitSleep == HistoryAtRest /\ PluginAtRest

\* the control loop and the sleeps
SpecSleep == InitSleep /\ [][NextSleep]_vars

\* time passes for the owner of the state machines
MachineWait == Sleep /\ UNCHANGED histVars

NextAgent ==
    \/ (NewAgentMachine /\ UNCHANGED <<histVars, restPluginVars>>)
    \/ (AgentServiceDetected /\ UNCHANGED <<histVars, restPluginVars>>)
    \/ (AgentStartupComplete /\ UNCHANGED <<histVars, restPluginVars>>)
    \/ (ServiceChanges /\ UNCHANGED <<histVars, restPluginVars>>)
    \/ MachineWait

InitAgent == HistoryAtRest /\ PluginAtRest

\* the Agent state machine, the service and the clock
SpecAgent == InitAgent /\ [][NextAgent]_vars

NextProgram ==
    \/ (NewProgramMachine /\ UNCHANGED <<histVars, restPluginVars>>)
    \/ (ProgramAgentUpdate /\ UNCHANGED <<histVars, restPluginVars>>)
    \/ (ProgramModelUpdate /\ UNCHANGED <<histVars, restPluginVars>>)

InitProgram == HistoryAtRest /\ PluginAtRest

\* the Program state machine, fed cycle after cycle
SpecProgram == InitProgram /\ [][NextProgram]_vars

NextPollingMode ==
    \/ (NewPollingModeMachine /\ UNCHANGED <<histVars, restPluginVars>>)
    \/ (PollingStateChangeDetected /\ UNCHANGED <<histVars, restPluginVars>>)
    \/ (PollingActivityCheck /\ UNCHANGED <<histVars, restPluginVars>>)
    \/ (PollingMinimumDurationComplete /\ UNCHANGED <<histVars, restPluginVars>>)
    \/ (PollingUpdateActivity /\ UNCHANGED <<histVars, restPluginVars>>)
    \/ MachineWait

InitPollingMode == HistoryAtRest /\ PluginAtRest

\* the PollingMode state machine and the clock
SpecPollingMode == InitPollingMode /\ [][NextPollingMode]_vars

----------------------------------------------------------------------------
\* Properties

\* The spec's ServiceStatus flags and reasons, in the code's terms:
\*   process_alive   = service_status.process_running
\*   registered      = service_status.plist_installed   (first argument of
\*                     from_system_check; its absence is PlistMissing)
\*   install_present = binary_available                  (second argument; its
\*                     absence is BinaryNotFound)
\*   api_responsive  = service_status.api_responsive

\* C1: when the agent state is Stopped and one update iteration finds the
\* service fully operational, the agent state after that iteration is Starting,
\* not Running.
CE_C1 ==
    (last_update.updated /\ last_update.old_agent_state = Stopped
        /\ is_fully_running(service_status))
    => agent_state = Starting

\* C2: after an update the agent state is Running whenever process_alive is
\* true, whatever the install, registration and API-responsive flags are.
CE_C2 ==
    (last_update.updated /\ service_status.process_running) => agent_state = Running

\* C3 as stated: process_alive false and registered true give Stopped for every
\* value of install_present.
CE_C3 ==
    (~service_status.process_running /\ service_status.plist_installed)
    => agent_state = Stopped

\* C3 as amended: process_alive false and registered true give Stopped when
\* install_present is true and NotReady{BinaryMissing} when it is false.
Thm_C3 ==
    (~service_status.process_running /\ service_status.plist_installed)
    => agent_state = IF last_update.binary_available
                     THEN Stopped
                     ELSE NotReady(BinaryNotFound)

W_C3 ==
    /\ last_update.updated
    /\ ~service_status.process_running
    /\ service_status.plist_installed
    /\ last_update.binary_available
    /\ last_update.old_agent_state = Running
    /\ agent_state = Stopped

\* C4: with process_alive false and registered false the agent state is
\* NotReady, with reason BinaryMissing when install_present is false and
\* RegistrationMissing when it is true.
Thm_C4 ==
    (~service_status.process_running /\ ~service_status.plist_installed)
    => agent_state = IF last_update.binary_available
                     THEN NotReady(PlistMissing)
                     ELSE NotReady(BinaryNotFound)

W_C4 ==
    /\ last_update.updated
    /\ ~service_status.process_running
    /\ ~service_status.plist_installed
    /\ last_update.binary_available
    /\ agent_state = NotReady(PlistMissing)

\* C5: the agent state becomes Running only in an iteration that starts in
\* Starting, with the dwell duration elapsed since Starting was entered and
\* the process still alive.
CE_C5 ==
    [][(agent_state # Running /\ agent_state' = Running)
        => (/\ agent_state = Starting
            /\ mono' - last_state_change >= startup_timeout
            /\ service_status'.process_running)]_vars

\* The value MetricsHistory::push stores in series n for the Metrics m
PushedValue(n, m) ==
    IF n = "tps" THEN m.predicted_tokens_per_sec
    ELSE IF n = "prompt_tps" THEN m.prompt_tokens_per_sec
    ELSE IF n = "memory_mb" THEN m.memory_mb
    ELSE kv_cache_percent(m)

SeqValues(deque) == [i \in 1..Len(deque) |-> deque[i].value]

LastN(seq, k) ==
    IF Len(seq) <= k THEN seq ELSE SubSeq(seq, Len(seq) - k + 1, Len(seq))

InWindow(deque, cutoff) == SelectSeq(deque, LAMBDA x : x.timestamp >= cutoff)

Timestamps(h) == UNION { { h[n][i].timestamp : i \in 1..Len(h[n]) } : n \in SeriesNames }

\* The cutoffs tried on the history h: at, just below and just above every
\* stored timestamp and the clock, and zero.
Cutoffs(h) ==
    {0} \cup UNION { { saturating_sub(t, 1), t, t + 1 } : t \in Timestamps(h) \cup {now} }

\* C6: whatever push, trim, clear and load operations have run, no series holds
\* more samples than the capacity of its history.
CE_C6 ==
    \A n \in SeriesNames : Len(history[n]) <= history.max_size

Thm_C8 ==
    \A n \in SeriesNames : \A c \in Cutoffs(history) :
        LET t == trim_deque(history[n], c)
        IN  /\ \A i \in 1..Len(t) : t[i].timestamp >= c
            /\ t = InWindow(history[n], c)

W_C8 ==
    /\ op.name = "trim_old_data"
    /\ op.removed >= 1
    /\ Len(history.tps) >= 1
    /\ history.tps[1].timestamp = saturating_sub(now, RetentionSecs)

\* C9: trimming twice at the same cutoff gives what trimming once gives, and a
\* second trim at a cutoff no larger than the first removes nothing.
Thm_C9 ==
    /\ \A n \in SeriesNames : \A c1 \in Cutoffs(history) : \A c2 \in Cutoffs(history) :
          c2 <= c1 =>
            trim_deque(trim_deque(history[n], c1), c2) = trim_deque(history[n], c1)
    /\ (op.name = "trim_old_data" /\ op.repeat) => op.removed = 0

W_C9 ==
    /\ op.name = "trim_old_data"
    /\ op.repeat
    /\ op.removed = 0
    /\ Len(history.tps) >= 1

\* C10: right after MetricsHistory::push at time now every series holds at most
\* capacity samples, none older than now - 300 s, and exactly the newest
\* min(capacity, samples within the window) of the samples it was given.
Thm_C10 ==
    [][op'.name = "push" =>
        \A n \in SeriesNames :
            LET cutoff == saturating_sub(now', RetentionSecs)
                given == Append(history[n],
                                TimestampedValue(now', PushedValue(n, pushed'[Len(pushed')])))
                within == InWindow(given, cutoff)
                k == IF history.max_size < Len(within) THEN history.max_size ELSE Len(within)
            IN  /\ Len(history'[n]) <= history'.max_size
                /\ \A i \in 1..Len(history'[n]) : history'[n][i].timestamp >= cutoff
                /\ history'[n] = LastN(within, k)]_vars

W_C10 ==
    /\ op.name = "push"
    /\ op.removed >= 1
    /\ Len(history.tps) >= 1
    /\ Len(history.tps) < history.max_size

\* Every series of the plugin's metrics history: the global series and the
\* four series of each model's history.
AllSeries(h) ==
    { h[g] : g \in GlobalSeriesNames }
        \cup UNION { { h.models[n][k] : k \in SeriesNames } : n \in DOMAIN h.models }

NoneOlderThan(h, cutoff) ==
    \A series \in AllSeries(h) : \A i \in 1..Len(series) : series[i].timestamp >= cutoff

\* C11: right after an update iteration at time now, whether its probe
\* succeeded or failed, no global or per-model series holds a sample older than
\* now - 300 s.
CE_C11 ==
    (last_update.updated /\ last_update.timestamp = now)
    => NoneOlderThan(metrics_history, saturating_sub(now, RetentionSecs))

\* C12: on an empty series (freshly constructed, fully trimmed or cleared) the
\* statistics have count 0 and mean, min, max and std_dev 0, and current is 0.
Thm_C12 ==
    \A n \in SeriesNames :
        history[n] = <<>> =>
            /\ calculate_stats(history[n]) =
                 [mean |-> f64(0), min |-> f64(0), max |-> f64(0),
                  variance |-> f64(0), count |-> 0]
            /\ get_insights(history[n]).current = f64(0)

W_C12 ==
    /\ op.name = "trim_old_data"
    /\ op.removed >= 2
    /\ history.tps = <<>>
    /\ calculate_stats(history.tps).count = 0

\* The smallest and the largest value stored in a non-empty series.
Smallest(deque) ==
    CHOOSE v \in { deque[i].value : i \in 1..Len(deque) } :
        \A i \in 1..Len(deque) : v <= deque[i].value

Largest(deque) ==
    CHOOSE v \in { deque[i].value : i \in 1..Len(deque) } :
        \A i \in 1..Len(deque) : v >= deque[i].value

\* The series of capacity 3 after the pushes (t=100, v=1), (t=200, v=2),
\* (t=300, v=3), (t=400, v=4).
Scenario_C13 ==
    push_value(push_value(push_value(push_value(<<>>, 1, 100, 3), 2, 200, 3),
                          3, 300, 3), 4, 400, 3)

\* C13: on a non-empty series the statistics are those of exactly the stored
\* samples: count is their number, min and max the smallest and largest stored
\* value, mean times count their sum, and current the newest sample; capacity 3
\* with pushes 1, 2, 3, 4 gives mean 3, min 2 and max 4.
Thm_C13 ==
    /\ map_value(Scenario_C13) = <<2, 3, 4>>
    /\ calculate_stats(Scenario_C13).mean = f64(3)
    /\ calculate_stats(Scenario_C13).min = f64(2)
    /\ calculate_stats(Scenario_C13).max = f64(4)
    /\ \A n \in SeriesNames :
        history[n] # <<>> =>
            LET st == calculate_stats(history[n])
            IN  /\ st.count = Len(history[n])
                /\ st.min = [num |-> Smallest(history[n]), den |-> 1]
                /\ st.max = [num |-> Largest(history[n]), den |-> 1]
                /\ st.mean.den > 0
                /\ st.mean.num * st.count = sum(map_value(history[n])) * st.mean.den
                /\ get_insights(history[n]).current =
                     [num |-> history[n][Len(history[n])].value, den |-> 1]

\* the series after eviction: more values were pushed than are stored, and the
\* stored ones differ
W_C13 ==
    /\ op.name = "push"
    /\ op.removed = 1
    /\ Len(pushed) > Len(history.tps)
    /\ Len(history.tps) = 2
    /\ history.tps[1].value > history.tps[2].value
    /\ calculate_stats(history.tps).mean = [num |-> 3, den |-> 2]

\* C14: when the agent is not Running the display state depends on the agent
\* state alone, for every model map and activity: NotReady gives AgentNotLoaded,
\* Starting gives AgentStarting and Stopped gives ServiceStopped.
CE_C14 ==
    display # None =>
        /\ agent_state.tag = "NotReady" => display = Some(AgentNotLoaded)
        /\ agent_state = Starting => display = Some(AgentStarting)
        /\ agent_state = Stopped => display = Some(ServiceStopped)

\* C15: with the agent Running, a Loading model in the model map gives
\* ModelLoading, whatever the activity and the states of the other models.
Thm_C15 ==
    (display # None /\ agent_state = Running
        /\ \E n \in DOMAIN model_states : model_states[n] = "Loading")
    => display = Some(ModelLoading)

\* one model Loading, another Running with requests in its queue
W_C15 ==
    /\ display = Some(ModelLoading)
    /\ agent_state = Running
    /\ DOMAIN model_states = {"m1", "m2"}
    /\ model_states["m1"] = "Loading"
    /\ model_states["m2"] = "Running"
    /\ has_queue_activity(Self)

\* C16: with the agent Running and no model Loading the display state is
\* ServiceLoadedNoModel for the empty model map whatever the activity,
\* ModelProcessingQueue for a non-empty map with activity and ModelReady for a
\* non-empty map without.
Thm_C16 ==
    (display # None /\ agent_state = Running
        /\ \A n \in DOMAIN model_states : model_states[n] # "Loading")
    => display = Some(IF DOMAIN model_states = {} THEN ServiceLoadedNoModel
                      ELSE IF has_queue_activity(Self) THEN ModelProcessingQueue
                      ELSE ModelReady)

\* the empty model map while the current snapshot shows activity
W_C16 ==
    /\ display = Some(ServiceLoadedNoModel)
    /\ agent_state = Running
    /\ DOMAIN model_states = {}
    /\ has_queue_activity(Self)

\* The state is the one an update iteration has just left: Sleep has not run
\* since.
JustUpdated == last_update.updated

\* the elapsed time PluginState::update_polling_mode read in that iteration
Elapsed == mono - last_state_change

Thm_C18 ==
    (/\ JustUpdated
     /\ agent_state = last_update.old_agent_state
     /\ last_update.old_polling_mode = "Starting"
     /\ Elapsed < STATE_CHANGE_DURATION)
    => polling_mode = "Starting"

W_C18 ==
    /\ JustUpdated
    /\ agent_state = last_update.old_agent_state
    /\ last_update.old_polling_mode = "Starting"
    /\ Elapsed >= 100
    /\ Elapsed < STATE_CHANGE_DURATION
    /\ has_queue_activity(Self)
    /\ polling_mode = "Starting"

\* C19: in a cycle in which no state change is detected (the agent state is
\* the same and the last change is 100 ms old or more), if the dwell time has
\* elapsed or the polling mode was not Starting, the polling mode after the
\* cycle is Active with activity and Idle without.
CE_C19 ==
    (/\ JustUpdated
     /\ agent_state = last_update.old_agent_state
     /\ Elapsed >= 100
     /\ (Elapsed >= STATE_CHANGE_DURATION \/ last_update.old_polling_mode # "Starting"))
    => polling_mode = IF has_queue_activity(Self) THEN Active ELSE Idle

\* C20: an update iteration whose probe fails adds exactly one to the error
\* count, leaves no current metrics and no model state, and still derives the
\* agent state from the service status of that iteration.
Thm_C20 ==
    (JustUpdated /\ ~last_update.api_success)
    => (/\ error_count = last_update.old_error_count + 1
        /\ current_all_metrics = None
        /\ model_states = NoModels
        /\ ~service_status.api_responsive
        /\ agent_state = from_system_check(service_status.plist_installed,
                                           last_update.binary_available,
                                           is_fully_running(service_status)))

W_C20 ==
    /\ JustUpdated
    /\ ~last_update.api_success
    /\ last_update.old_agent_state = Running
    /\ last_update.old_error_count = 0
    /\ error_count = 1
    /\ agent_state = Stopped
    /\ model_states = NoModels
    /\ current_all_metrics = None

\* The step is an update iteration whose probe failed.
FailedIteration ==
    /\ last_update'.updated
    /\ ~last_update'.api_success
    /\ error_count' = error_count + 1

\* Every sample of the series `before` is in `after`, followed by one new
\* sample, but for the oldest ones evicted by a series at its capacity.
SurvivesPush(before, after, max_size) ==
    LET kept == Len(after) - 1
    IN  /\ kept >= 0
        /\ kept <= Len(before)
        /\ SubSeq(after, 1, kept) = SubSeq(before, Len(before) - kept + 1, Len(before))
        /\ kept < Len(before) => Len(after) = max_size

ModelDisplayStates == {ModelLoading, ModelProcessingQueue, ModelReady}

\* C22: from the first update iteration whose probe fails and for as long as
\* the last probe has failed, the agent is not Running, nothing of an earlier
\* probe's models is left in the plugin state, and the display state is none of
\* ModelLoading, ModelProcessingQueue, ModelReady.
Thm_C22 ==
    (last_update.updated /\ ~last_update.api_success)
    => (/\ agent_state.tag \in {"NotReady", "Stopped"}
        /\ model_states = NoModels
        /\ current_all_metrics = None
        /\ get_display_state(Self) \notin ModelDisplayStates)

W_C22 ==
    /\ last_update.updated
    /\ ~last_update.api_success
    /\ last_update.old_agent_state = Stopped
    /\ display = Some(ModelReady)
    /\ error_count = 2
    /\ get_display_state(Self) = ServiceStopped

\* C23: after an update iteration whose probe succeeded, the model states are
\* exactly those of the models the probe listed, each with the state the probe
\* reported: a model no longer listed is gone in that iteration, a model newly
\* listed is there.
Thm_C23 ==
    (last_update.updated /\ last_update.api_success)
    => (/\ current_all_metrics # None
        /\ DOMAIN model_states = DOMAIN current_all_metrics[1]
        /\ \A n \in DOMAIN model_states :
              model_states[n] = current_all_metrics[1][n].model_state)

\* m1, which an earlier probe listed (its history is still there), is gone from
\* the model states; m2, which this probe lists for the first time, is there
W_C23 ==
    /\ last_update.updated
    /\ last_update.api_success
    /\ DOMAIN current_all_metrics[1] = {"m2"}
    /\ DOMAIN model_states = {"m2"}
    /\ model_states["m2"] = "Loading"
    /\ DOMAIN metrics_history.models = {"m1", "m2"}
    /\ Len(metrics_history.models["m2"].tps) = 1
    /\ Len(metrics_history.models["m1"].tps) = 2

\* The step is an update iteration whose probe succeeded.
SucceededIteration ==
    /\ now' = now
    /\ last_update'.updated
    /\ last_update'.api_success

\* Some series of the model history h holds a sample of the retention window
\* that starts at cutoff.
HasRecentSample(h, cutoff) ==
    \E k \in SeriesNames : \E i \in 1..Len(h[k]) : h[k][i].timestamp >= cutoff

\* C24: an update iteration whose probe succeeded pushes and then trims.  After
\* it a model has a history exactly when the probe listed it (its history is
\* created by that push if there was none) or its history held a sample of the
\* retention window, listed or not; and every history there is has a series
\* that is not empty.
Thm_C24 ==
    [][SucceededIteration =>
        LET listed == DOMAIN current_all_metrics'[1]
            before == metrics_history.models
            after == metrics_history'.models
            cutoff == saturating_sub(now, RetentionSecs)
        IN  /\ \A n \in ModelNames :
                  n \in DOMAIN after <=>
                      \/ n \in listed
                      \/ (n \in DOMAIN before /\ HasRecentSample(before[n], cutoff))
            /\ \A n \in DOMAIN after : \E k \in SeriesNames : after[n][k] # <<>>
            /\ \A n \in listed \ DOMAIN before :
                  \A k \in SeriesNames : Len(after[n][k]) = 1]_vars

\* m1 is no longer listed, and its history is still there with a sample pushed
\* earlier
W_C24 ==
    /\ last_update.updated
    /\ last_update.api_success
    /\ last_update.timestamp = now
    /\ DOMAIN current_all_metrics[1] = {}
    /\ "m1" \in DOMAIN metrics_history.models
    /\ metrics_history.models["m1"].tps[1].timestamp < now

\* the insights last computed are a trend
TrendComputed == insights # None /\ insights[1].kind = "trend"

\* C25: the trend of a series of fewer than 3 samples is Insufficient, whatever
\* the values and the timestamps.
Thm_C25 ==
    (TrendComputed /\ Len(history.tps) < 3) => insights[1].trend = Insufficient

W_C25 ==
    /\ TrendComputed
    /\ Len(history.tps) = 2
    /\ history.tps[1].value = 0
    /\ history.tps[2].value = 10
    /\ history.tps[1].timestamp = now - 1
    /\ insights[1].trend = Insufficient

\* C26: the trend of a series of at least 3 samples whose values in the chosen
\* window are all the same is Stable, whatever the timestamps and the value.
Thm_C26 ==
    (/\ TrendComputed
     /\ Len(history.tps) >= 3
     /\ LET points == trend_window(history.tps, now).points
        IN  \A i \in 1..Len(points) : points[i].value = points[1].value)
    => insights[1].trend = Stable

\* ten pushes of the same value
W_C26 ==
    /\ TrendComputed
    /\ Len(history.tps) = 10
    /\ \A i \in 1..10 : history.tps[i].value = 0
    /\ insights[1].trend = Stable

\* C27 as stated: the trend is taken over the 30-second window when it holds
\* at least 3 samples, else over the 15-second window when that one does, else
\* over the whole series, and each of the three is taken for some series.
CE_C27 ==
    /\ TrendComputed /\ Len(history.tps) >= 3 =>
          <<insights[1].choice, insights[1].window_secs>> =
              IF Len(window_points(history.tps, now, 30)) >= 3 THEN <<"window", 30>>
              ELSE IF Len(window_points(history.tps, now, 15)) >= 3 THEN <<"window", 15>>
              ELSE <<"all", 0>>
    /\ \A c \in {<<"window", 30>>, <<"window", 15>>, <<"all", 0>>} :
          \E in \in TrendInputs :
              LET w == trend_window(in.deque, in.t)
              IN  Len(in.deque) >= 3 /\ <<w.choice, w.window_secs>> = c

\* C27 as amended: the trend is taken over the 30-second window when it holds
\* at least 3 samples and over the whole series, with its own span of at least
\* one second, otherwise; the 15-second window, whose samples are all in the
\* 30-second one, is never the one taken.
Thm_C27 ==
    (TrendComputed /\ Len(history.tps) >= 3) =>
        LET w == trend_window(history.tps, now)
            last == history.tps[Len(history.tps)].timestamp
        IN  /\ <<insights[1].choice, insights[1].window_secs>> =
                  IF Len(window_points(history.tps, now, 30)) >= 3 THEN <<"window", 30>>
                  ELSE <<"all", 0>>
            /\ insights[1].choice = "window" =>
                  /\ w.points = window_points(history.tps, now, 30)
                  /\ w.time_span_secs = 30
            /\ insights[1].choice = "all" =>
                  /\ w.points = history.tps
                  /\ w.time_span_secs = Max(last - history.tps[1].timestamp, 1)
            /\ insights[1].trend = calculate_trend_from_points(w.points, w.time_span_secs)

\* four samples, two of them in the 30-second window: the whole series is taken
W_C27 ==
    /\ TrendComputed
    /\ Len(history.tps) = 4
    /\ Len(window_points(history.tps, now, 30)) = 2
    /\ Len(window_points(history.tps, now, 15)) = 1
    /\ insights[1].choice = "all"
    /\ insights[1].trend = Increasing

\* the mean of the values of a non-empty series, as a fraction
Mean(deque) == f64_div(sum(map_value(deque)), Len(deque))

\* the up to 10 newest samples of the series before its newest one
RecentBeforeCurrent(deque) ==
    SubSeq(deque, Max(1, Len(deque) - 10), Len(deque) - 1)

\* C28: the anomaly flag is false when fewer than 5 samples precede the current
\* one, and otherwise true exactly when the current value is above 1.5 times or
\* below 0.5 times the mean of the up to 10 newest samples before it.
CE_C28 ==
    (insights # None /\ insights[1].kind = "anomaly") =>
        LET before == Len(history.tps) - 1
            mean == Mean(RecentBeforeCurrent(history.tps))
            current == insights[1].current
        IN  insights[1].anomalous =
                IF before < 5 THEN FALSE
                ELSE \/ 2 * current * mean.den > 3 * mean.num
                     \/ 2 * current * mean.den < mean.num

\* a sleep has returned, or has ended in a panic
SleepOver == control.pc \in {"loop_test", "exited", "returned", "panicked"}

\* the sleep is one of the control loop, or the channel-based sleep
LoopSleep == control.caller = "loop" \/ control.fn = "improved_adaptive_sleep"

\* C29: a shutdown request that comes while the control loop sleeps ends the
\* sleep before the whole interval has elapsed, and no frame is rendered after
\* it; the sleep of a disconnected channel ends as early.
CE_C29 ==
    /\ (LoopSleep /\ control.signal_in_sleep /\ SleepOver)
           => control.slept < control.duration
    /\ ~control.render_after_signal

\* C30: a sleep with no shutdown signal returns, for every duration asked for,
\* zero and less than a second included, and has then waited the duration, not
\* longer.
CE_C30 ==
    /\ control.pc # "panicked"
    /\ (control.pc = "returned" /\ control.running /\ ~control.signal_in_sleep)
           => control.slept = control.duration

UpdateIteration == last_update'.updated /\ mono' = mono

\* C32: an update iteration in which the agent state changes sets
\* last_state_change to the time of the iteration, and an iteration that
\* leaves the agent state as the previous one left it leaves
\* last_state_change as it was.
Thm_C32 ==
    [][UpdateIteration =>
          last_state_change' = IF agent_state' # agent_state
                               THEN mono'
                               ELSE last_state_change]_vars

W_C32 ==
    /\ JustUpdated
    /\ agent_state = last_update.old_agent_state
    /\ agent_state = Running
    /\ last_state_change > 0
    /\ last_state_change < mono

\* The samples of the series are in non-decreasing timestamp order, the
\* oldest first.
OldestFirst(deque) ==
    \A i \in 1..(Len(deque) - 1) : deque[i].timestamp <= deque[i + 1].timestamp

CE_C34 ==
    (/\ agent_machine # None
     /\ agent_machine[1].event # "none"
     /\ agent_machine[1].from = "Starting"
     /\ ~agent_machine[1].running_at_event)
    => agent_machine[1].state # "Running"

\* C35: after any sequence of update iterations error_count is the number of
\* probes that have failed since the most recent probe that succeeded: 0 when
\* the last probe succeeded or no probe has run.
Thm_C35 == error_count = last_update.failed_probes

W_C35 ==
    /\ JustUpdated
    /\ last_update.api_success
    /\ last_update.old_error_count = MaxErrors
    /\ error_count = 0

\* C36: from every state of the Program machine, the agent update of a cycle
\* followed by its model update leaves the machine in the state that
\* determine_program_state_from_agent_and_models gives for the same agent
\* state and the same has-models, has-loading and has-activity.
Thm_C36 ==
    (program_machine # None /\ program_machine[1].cycle = "models")
    => LET m == program_machine[1]
       IN  m.state = determine_program_state_from_agent_and_models(
                         m.agent, m.update.has_models, m.update.has_loading,
                         m.update.has_activity)

W_C36 ==
    /\ program_machine # None
    /\ program_machine[1].cycle = "models"
    /\ program_machine[1].from = ModelReady
    /\ program_machine[1].agent = "Running"
    /\ program_machine[1].update.has_models
    /\ program_machine[1].update.has_activity
    /\ program_machine[1].state = ModelProcessingQueue

\* C37: the trend is Increasing only when the last value of the chosen window
\* is greater than the first, Decreasing only when it is smaller, and Stable
\* whenever the two are equal.
Thm_C37 ==
    (TrendComputed /\ insights[1].choice # "none")
    => LET points == trend_window(history.tps, now).points
           first == points[1].value
           last == points[Len(points)].value
       IN  /\ insights[1].trend = Increasing => last > first
           /\ insights[1].trend = Decreasing => last < first
           /\ first = last => insights[1].trend = Stable

\* a series that rises from 1 to 10 and is back at 1: its ends are equal, its
\* values are not all the same
W_C37 ==
    /\ TrendComputed
    /\ insights[1].choice = "window"
    /\ LET points == trend_window(history.tps, now).points
       IN  /\ points[1].value = 1
           /\ points[2].value = 10
           /\ points[Len(points)].value = 1
    /\ insights[1].trend = Stable

\* C38: after every update iteration the current snapshot, the error counter
\* and the model states agree: there is a snapshot exactly when error_count is
\* 0, and the models that have a state are exactly those of the snapshot, none
\* when there is no snapshot.
Thm_C38 ==
    JustUpdated
    => (/\ (current_all_metrics # None) <=> (error_count = 0)
        /\ DOMAIN model_states = IF current_all_metrics = None
                                 THEN {}
                                 ELSE DOMAIN current_all_metrics[1])

\* both models are back after a probe that failed
W_C38 ==
    /\ JustUpdated
    /\ last_update.api_success
    /\ last_update.old_error_count = 1
    /\ error_count = 0
    /\ current_all_metrics # None
    /\ DOMAIN model_states = {"m1", "m2"}

\* C39: the PollingMode machine leaves Starting only by an event processed
\* when the minimum duration has elapsed since the most recent
\* StateChangeDetected: a MinimumDurationComplete or an ActivityCheck processed
\* before that leaves it in Starting.
Thm_C39 ==
    (/\ polling_mode_machine # None
     /\ polling_mode_machine[1].event # "none"
     /\ polling_mode_machine[1].from = "Starting"
     /\ polling_mode_machine[1].state # "Starting")
    => LET m == polling_mode_machine[1]
       IN  /\ m.last_change # None
           /\ m.processed_at - m.last_change[1] >= m.context.minimum_duration

\* an ActivityCheck that reports activity, 2 s after a change that restarted
\* the timer of a machine whose minimum duration is 5 s, leaves it in Starting
W_C39 ==
    /\ polling_mode_machine # None
    /\ polling_mode_machine[1].event = "ActivityCheck"
    /\ polling_mode_machine[1].from = "Starting"
    /\ polling_mode_machine[1].context.minimum_duration = 5000
    /\ polling_mode_machine[1].last_change = Some(3000)
    /\ polling_mode_machine[1].processed_at = 5000
    /\ polling_mode_machine[1].context.current_activity
    /\ polling_mode_machine[1].state = "Starting"

====
